---------------------------- MODULE Spec2Model ----------------------------
(***************************************************************************)
(* The interactive "add changeset" questionnaire of the changesets CLI:    *)
(* release selection (createChangeset), the change-type collector          *)
(* (ChangesetsWithChangeTypes), the summary collector (setSummary) and the *)
(* changeset writer (writeChangesetList).                                  *)
(*                                                                         *)
(* Every prompt is an await point: one action of the model is the answer   *)
(* the prompt service gives plus all the code that runs up to the next     *)
(* prompt.                                                                 *)
(***************************************************************************)
EXTENDS Integers, Sequences, FiniteSets, TLC

(***************************************************************************)
(* Bounds of the model.                                                    *)
(***************************************************************************)
\* the largest number of packages in the workspace
MaxPkgs == 2
\* how many times in a row a prompt in a retry loop may be left empty
MaxRetry == 1
\* how many of the category boxes the user may tick (the first ones of the list)
MaxCategories == 1
\* the same two bounds for the sessions that start inside the change-type
\* collector: three packages are what it takes to offer a reuse twice
MaxCollectorPkgs == 3
MaxCollectorCategories == 2
\* the longest release list and the most categories per release handed to
\* getChangesetContent
MaxRenderReleases == 2
MaxRenderCategories == 2

(***************************************************************************)
(* Generic helpers on sequences.                                           *)
(***************************************************************************)
Range(s) == {s[j] : j \in 1..Len(s)}

\* Array.prototype.filter with the predicate "is a member of keep"
RECURSIVE FilterIn(_, _)
FilterIn(s, keep) ==
  IF s = <<>> THEN <<>>
  ELSE IF Head(s) \in keep THEN <<Head(s)>> \o FilterIn(Tail(s), keep)
       ELSE FilterIn(Tail(s), keep)

\* every sub-list of s that keeps the order of s (the ticked boxes of a list)
RECURSIVE SubSeqs(_)
SubSeqs(s) ==
  IF s = <<>> THEN {<<>>}
  ELSE LET rest == SubSeqs(Tail(s))
       IN  rest \cup {<<Head(s)>> \o t : t \in rest}

\* new Set(list): first occurrences, in insertion order
RECURSIVE NewSet(_)
NewSet(s) ==
  IF s = <<>> THEN <<>>
  ELSE LET init == NewSet(SubSeq(s, 1, Len(s) - 1))
       IN  IF s[Len(s)] \in Range(init) THEN init ELSE Append(init, s[Len(s)])

\* Set.prototype.delete
\* a delete that removes nothing
SetKeep(s, x) == s

SetDelete(s, x) == FilterIn(s, Range(s) \ {x})

(***************************************************************************)
(* semver.lt: versions are [major, minor, patch, pre]; pre is the list of  *)
(* (numeric) prerelease identifiers, empty for a release version.          *)
(***************************************************************************)
Version(ma, mi, pa, pre) == [major |-> ma, minor |-> mi, patch |-> pa, pre |-> pre]

V_1_0_0 == Version(1, 0, 0, <<>>)

compareMain(a, b) ==
  IF a.major # b.major THEN (IF a.major < b.major THEN -1 ELSE 1)
  ELSE IF a.minor # b.minor THEN (IF a.minor < b.minor THEN -1 ELSE 1)
  ELSE IF a.patch # b.patch THEN (IF a.patch < b.patch THEN -1 ELSE 1)
  ELSE 0

RECURSIVE compareIdentifiers(_, _)
compareIdentifiers(p, q) ==
  IF p = <<>> /\ q = <<>> THEN 0
  ELSE IF q = <<>> THEN 1
  ELSE IF p = <<>> THEN -1
  ELSE IF Head(p) = Head(q) THEN compareIdentifiers(Tail(p), Tail(q))
  ELSE IF Head(p) < Head(q) THEN -1 ELSE 1

comparePre(a, b) ==
  IF a.pre # <<>> /\ b.pre = <<>> THEN -1
  ELSE IF a.pre = <<>> /\ b.pre # <<>> THEN 1
  ELSE IF a.pre = <<>> /\ b.pre = <<>> THEN 0
  ELSE compareIdentifiers(a.pre, b.pre)

SemverCompare(a, b) ==
  IF compareMain(a, b) # 0 THEN compareMain(a, b) ELSE comparePre(a, b)

SemverLt(a, b) == SemverCompare(a, b) < 0

(***************************************************************************)
(* The workspace: the packages a session may find.                         *)
(***************************************************************************)
PackagePool ==
  << [name |-> "pkg-a", version |-> Version(0, 5, 0, <<>>)],
     [name |-> "pkg-b", version |-> Version(2, 0, 0, <<>>)],
     [name |-> "pkg-c", version |-> Version(1, 0, 0, <<>>)],
     [name |-> "pkg-d", version |-> Version(1, 0, 0, <<1>>)] >>

Workspaces == {w \in SubSeqs(PackagePool) : Len(w) \in 1..MaxPkgs}

Names(pkgs) == [j \in 1..Len(pkgs) |-> pkgs[j].name]

(***************************************************************************)
(* The state of one "add" session.                                         *)
(***************************************************************************)
VARIABLES
  \* inputs of the session
  allPackages,              \* packages found in the workspace
  changedPackages,          \* names git reports as changed since the base branch
  empty,                    \* the --empty flag
  open,                     \* the --open flag
  failingLaunch,            \* which launch of the editor throws (0: none does)
  config,                   \* commit, shouldAskForChangeTypes, alwaysOpenEditor
  \* control
  pc,                       \* the await point the session is suspended at
  retries,                  \* empty answers given in a row at the current retry loop
  thrown,                   \* the error that ended the session, if any
  \* createChangeset
  packagesToRelease,        \* what getPackagesToRelease returned
  pkgsLeftToGetBumpTypeFor, \* the Set of packages not yet classified (insertion order)
  i,                        \* index into bumpTypes
  packages,                 \* the choices of the current severity step
  pkgsForThisBumpType,      \* the packages picked for bumpTypes[i]
  kPkg,                     \* index into pkgsForThisBumpType
  releases,                 \* the releases pushed so far
  type,                     \* single-package mode: the answer of askList
  newChangeset,             \* <<the value createChangeset returned>>
  \* ChangesetsWithChangeTypes: the fields of the object
  isWithChangeTypes,
  thisReleases,
  chosenChangeTypeList,
  changesetList,
  invoked,                  \* the operations invoked on the object so far, in order
  \* ChangesetsWithChangeTypes: locals of the running operation
  gIdx,                     \* index of the bump type or release being described
  cIdx,                     \* index of the category being described
  isSameMessageForAllPkgs,  \* the answer to the grouping question
  changeTypeList,           \* the change types collected for gIdx so far
  releaseWithChangeTypeList,\* per bump type: the annotated releases so far
  newChangesetList,         \* per package: the changesets built so far
  previousAnswers,          \* per package: category -> last description typed
  sIdx,                     \* setSummaries: index of the changeset
  collect,                  \* setSummary: what this call has asked so far
  \* writeChangesetList
  changesets,               \* the list handed to the writer
  wIdx,                     \* index of the changeset being written
  written,                  \* the changesets passed to the store, in order
  calls,                    \* calls of the store, the VCS and the editor launch
  askedDesired,             \* indices of the changesets the writer asked about
  declined,                 \* indices of those the user answered no to
  \* observation
  asked,                    \* prompt kind -> how often it was answered
  confirmLog,               \* one record per call of confirmMajorRelease
  \* getChangesetContent
  render                    \* the arguments of the renderer and what its calls returned

inputVars  == <<allPackages, changedPackages, empty, open, failingLaunch, config>>
ctrlVars   == <<pc, retries, thrown>>
createVars == <<packagesToRelease, pkgsLeftToGetBumpTypeFor, i, packages,
                pkgsForThisBumpType, kPkg, releases, type, newChangeset>>
fieldVars  == <<isWithChangeTypes, thisReleases, chosenChangeTypeList, changesetList,
                invoked>>
localVars  == <<gIdx, cIdx, isSameMessageForAllPkgs, changeTypeList,
                releaseWithChangeTypeList, newChangesetList, previousAnswers, sIdx,
                collect>>
writerVars == <<changesets, wIdx, written, calls, askedDesired, declined>>
obsVars    == <<asked, confirmLog>>
vars       == <<inputVars, ctrlVars, createVars, fieldVars, localVars, writerVars,
                obsVars, render>>

None == "(none)"

(***************************************************************************)
(* Answers the collaborators may give.                                     *)
(***************************************************************************)
\* cli.askQuestion: a line typed at the console
ConsoleAnswers == {"", "console summary"}
\* cli.askQuestionWithEditor: the saved text, or an EditorError
EditorError == "(EditorError)"
EditorOutcomes == {"", "editor summary", EditorError}

\* an empty answer at a retry loop is possible MaxRetry times in a row
MayBeEmpty == retries < MaxRetry

\* "reused" counts the reuse offers that were accepted
PromptKinds ==
  {"bump", "firstMajor", "list", "Summary", "editor", "again", "categories",
   "sameMessage", "reuse", "reused", "description", "desired"}

Asked(kind) == [asked EXCEPT ![kind] = @ + 1]

(***************************************************************************)
(* createChangeset.ts                                                      *)
(***************************************************************************)
bumpTypes == <<"major", "minor", "patch", "none">>

\* a push that loses the chosen type
ReleaseAsPatch(name, bumpType) == [name |-> name, type |-> "patch"]

\* lines 201, 217: releases.push({ name, type })
Release(name, bumpType) == [name |-> name, type |-> bumpType]

pkgJsonsByName(name) == CHOOSE p \in Range(allPackages) : p.name = name

\* a test that looks at the major number only
asksBelowMajorOne(pkgJSON) == pkgJSON.version.major < 1

\* confirmMajorRelease, line 16: the confirmation is asked for such a version
confirmMajorReleaseAsks(pkgJSON) == SemverLt(pkgJSON.version, V_1_0_0)

\* one call of confirmMajorRelease: answer is <<>> when no prompt was issued
ConfirmRecord(name, wasAsked, answer, result) ==
  [pkg |-> name, asked |-> wasAsked, answer |-> answer, result |-> result]

\* getPackagesToRelease: the groups of the initial multi-select
unchangedPackagesNames ==
  FilterIn(Names(allPackages), Range(Names(allPackages)) \ Range(changedPackages))

defaultChoiceList ==
  LET groups == << [name |-> "changed packages", choices |-> changedPackages],
                   [name |-> "unchanged packages", choices |-> unchangedPackagesNames] >>
  IN  FilterIn(groups, {g \in Range(groups) : Len(g.choices) # 0})

\* the boxes of a grouped multi-select: each group's label, then its choices
RECURSIVE Boxes(_)
Boxes(groups) ==
  IF groups = <<>> THEN <<>>
  ELSE <<Head(groups).name>> \o Head(groups).choices \o Boxes(Tail(groups))

\* cli.askCheckboxPlus: any of the boxes may come back ticked
CheckboxAnswers(groups) == SubSeqs(Boxes(groups))

\* lines 89-92: the group labels are dropped from the answer
withoutGroupLabels(answer) ==
  FilterIn(answer, Range(answer) \ {"changed packages", "unchanged packages"})

\* a test that takes no selection as given
selectionIsAlwaysEmpty(answer) == TRUE

\* lines 81, 87: the test of the re-prompt loop
selectionIsEmpty(answer) == Len(answer) = 0

\* choosePkgsForBumpType, line 141
withoutAllPackages(answer) == FilterIn(answer, Range(answer) \ {"all packages"})

(***************************************************************************)
(* The loops of lines 173-202, run up to the next prompt.  The result is   *)
(* the values of the loop's variables where it stops, with the calls of    *)
(* confirmMajorRelease that needed no prompt.                              *)
(***************************************************************************)
LoopState(at, bi, pkgs, sel, ki, left, rels, cl) ==
  [pc |-> at, i |-> bi, packages |-> pkgs, pkgsForThisBumpType |-> sel, k |-> ki,
   pkgsLeftToGetBumpTypeFor |-> left, releases |-> rels, confirmLog |-> cl]

RECURSIVE forPkgName(_, _, _, _, _, _, _), forBump(_, _, _, _)

\* lines 192-201, from the k-th package of pkgsForThisBumpType on
forPkgName(bi, pkgs, sel, ki, left, rels, cl) ==
  IF ki > Len(sel) THEN forBump(bi + 1, left, rels, cl)
  ELSE IF bumpTypes[bi] = "major" /\ confirmMajorReleaseAsks(pkgJsonsByName(sel[ki]))
       THEN LoopState("confirmMajorRelease", bi, pkgs, sel, ki, left, rels, cl)
       ELSE forPkgName(bi, pkgs, sel, ki + 1,
                       SetDelete(left, sel[ki]),
                       Append(rels, Release(sel[ki], bumpTypes[bi])),
                       IF bumpTypes[bi] = "major"
                       THEN cl \cup {ConfirmRecord(sel[ki], FALSE, <<>>, TRUE)}
                       ELSE cl)

\* lines 173-190, from the bi-th bump type on
forBump(bi, left, rels, cl) ==
  IF bi > Len(bumpTypes) \/ Len(left) = 0
  THEN LoopState("askSummary", bi, <<>>, <<>>, 0, left, rels, cl)
  ELSE IF bi = Len(bumpTypes)
       THEN forPkgName(bi, left, left, 1, left, rels, cl)
       ELSE LoopState("choosePkgsForBumpType", bi, left, <<>>, 0, left, rels, cl)

Resume(st) ==
  /\ pc' = st.pc
  /\ i' = st.i
  /\ packages' = st.packages
  /\ pkgsForThisBumpType' = st.pkgsForThisBumpType
  /\ kPkg' = st.k
  /\ pkgsLeftToGetBumpTypeFor' = st.pkgsLeftToGetBumpTypeFor
  /\ releases' = st.releases
  /\ confirmLog' = st.confirmLog

Changeset(conf, summ, rels) == [confirmed |-> conf, summary |-> summ, releases |-> rels]

isMultiPackage == Len(allPackages) > 1

\* createChangeset returns to the session
Return(changeset) ==
  /\ newChangeset' = <<changeset>>
  /\ pc' = "createChangesetReturned"
  /\ retries' = 0

(***************************************************************************)
(* getPackagesToRelease, lines 79-92: the initial multi-select is answered *)
(***************************************************************************)
askInitialReleaseQuestion ==
  /\ pc = "askInitialReleaseQuestion"
  /\ \E answer \in CheckboxAnswers(defaultChoiceList) :
       /\ selectionIsEmpty(answer) => MayBeEmpty
       /\ IF selectionIsEmpty(answer)
          THEN /\ retries' = retries + 1
               /\ UNCHANGED <<pc, createVars, confirmLog>>
          ELSE /\ retries' = 0
               /\ packagesToRelease' = withoutGroupLabels(answer)
               /\ Resume(forBump(1, NewSet(withoutGroupLabels(answer)), <<>>, confirmLog))
               /\ UNCHANGED <<type, newChangeset>>
  /\ UNCHANGED <<inputVars, render, thrown, fieldVars, localVars, writerVars, asked>>

(***************************************************************************)
(* choosePkgsForBumpType, lines 185-189: a severity multi-select is        *)
(* answered                                                                *)
(***************************************************************************)
choosePkgsForBumpType ==
  /\ pc = "choosePkgsForBumpType"
  /\ \E answer \in CheckboxAnswers(<<[name |-> "all packages", choices |-> packages]>>) :
       Resume(forPkgName(i, packages, withoutAllPackages(answer), 1,
                         pkgsLeftToGetBumpTypeFor, releases, confirmLog))
  /\ asked' = Asked("bump")
  /\ UNCHANGED <<inputVars, render, retries, thrown, packagesToRelease, type, newChangeset,
                 fieldVars, localVars, writerVars>>

(***************************************************************************)
(* confirmMajorRelease, lines 27-34: the first-major confirmation is       *)
(* answered                                                                *)
(***************************************************************************)
\* a single-package branch that goes on after a declined confirmation
afterSingleConfirmGoesOn(shouldReleaseAsMajor) == "askSummary"

\* lines 213-215: single-package mode, where the session goes after the answer
afterSingleConfirm(shouldReleaseAsMajor) ==
  IF ~shouldReleaseAsMajor THEN "ExitError" ELSE "askSummary"

\* a loop that takes a declined package out of the pool
afterMultiConfirmDrops(shouldReleaseFirstMajor, pkgName, left, rels) ==
  [left |-> SetDelete(left, pkgName),
   rels |-> IF shouldReleaseFirstMajor
            THEN Append(rels, Release(pkgName, "major")) ELSE rels]

\* a loop that releases a declined package at once with the last bump type
afterMultiConfirmForcesLast(shouldReleaseFirstMajor, pkgName, left, rels) ==
  [left |-> SetDelete(left, pkgName),
   rels |-> Append(rels, Release(pkgName, IF shouldReleaseFirstMajor
                                          THEN "major" ELSE "none"))]

\* lines 196-200: multi-package mode, the pool and the releases after the answer
afterMultiConfirm(shouldReleaseFirstMajor, pkgName, left, rels) ==
  IF ~shouldReleaseFirstMajor
  THEN [left |-> left, rels |-> rels]
  ELSE [left |-> SetDelete(left, pkgName),
        rels |-> Append(rels, Release(pkgName, "major"))]

confirmMajorReleaseMulti(shouldReleaseFirstMajor) ==
  LET pkgName == pkgsForThisBumpType[kPkg]
      cl      == confirmLog \cup
                   {ConfirmRecord(pkgName, TRUE, <<shouldReleaseFirstMajor>>,
                                  shouldReleaseFirstMajor)}
      after   == afterMultiConfirm(shouldReleaseFirstMajor, pkgName,
                                   pkgsLeftToGetBumpTypeFor, releases)
  IN  /\ Resume(forPkgName(i, packages, pkgsForThisBumpType, kPkg + 1,
                           after.left, after.rels, cl))
      /\ UNCHANGED <<thrown, type>>

confirmMajorReleaseSingle(shouldReleaseAsMajor) ==
  LET pkg == allPackages[1]
  IN  /\ confirmLog' = confirmLog \cup
                         {ConfirmRecord(pkg.name, TRUE, <<shouldReleaseAsMajor>>,
                                        shouldReleaseAsMajor)}
      /\ pc' = afterSingleConfirm(shouldReleaseAsMajor)
      /\ IF afterSingleConfirm(shouldReleaseAsMajor) = "ExitError"
         THEN /\ thrown' = "ExitError(1)"
              /\ UNCHANGED releases
         ELSE /\ thrown' = thrown
              /\ releases' = Append(releases, Release(pkg.name, type))
      /\ UNCHANGED <<i, packages, pkgsForThisBumpType, kPkg, pkgsLeftToGetBumpTypeFor,
                     type>>

confirmMajorRelease ==
  /\ pc = "confirmMajorRelease"
  /\ \E answer \in BOOLEAN :
       IF isMultiPackage THEN confirmMajorReleaseMulti(answer)
                         ELSE confirmMajorReleaseSingle(answer)
  /\ asked' = Asked("firstMajor")
  /\ UNCHANGED <<inputVars, render, retries, packagesToRelease, newChangeset,
                 fieldVars, localVars, writerVars>>

(***************************************************************************)
(* createChangeset, lines 204-217: single-package mode, askList is         *)
(* answered                                                                *)
(***************************************************************************)
askList ==
  /\ pc = "askList"
  /\ \E answer \in {"patch", "minor", "major"} :
       LET pkg == allPackages[1]
       IN  /\ type' = answer
           /\ IF answer = "major" /\ confirmMajorReleaseAsks(pkg)
              THEN /\ pc' = "confirmMajorRelease"
                   /\ UNCHANGED <<releases, confirmLog>>
              ELSE /\ pc' = "askSummary"
                   /\ confirmLog' = IF answer = "major"
                                    THEN confirmLog \cup
                                           {ConfirmRecord(pkg.name, FALSE, <<>>, TRUE)}
                                    ELSE confirmLog
                   /\ releases' = Append(releases, Release(pkg.name, answer))
  /\ asked' = Asked("list")
  /\ UNCHANGED <<inputVars, render, retries, thrown, packagesToRelease, pkgsLeftToGetBumpTypeFor,
                 i, packages, pkgsForThisBumpType, kPkg, newChangeset,
                 fieldVars, localVars, writerVars>>

(***************************************************************************)
(* createChangeset, lines 225-257: the summary                             *)
(***************************************************************************)
\* a test that takes every answer as a summary
summaryIsNeverEmpty(summary) == FALSE

\* lines 226, 245: the tests on the answer
summaryIsEmpty(summary) == Len(summary) = 0
\* an editor step that takes whatever came back
editorAlwaysGaveSummary(outcome) == TRUE

\* line 231: the text the editor returned is taken
editorGaveSummary(outcome) == outcome # EditorError /\ Len(outcome) > 0

askSummary ==
  /\ pc = "askSummary"
  /\ \E summary \in ConsoleAnswers :
       IF summaryIsEmpty(summary)
       THEN /\ pc' = "askQuestionWithEditor"
            /\ UNCHANGED <<retries, newChangeset>>
       ELSE Return(Changeset(FALSE, summary, releases))
  /\ asked' = Asked("Summary")
  /\ UNCHANGED <<inputVars, render, thrown, confirmLog, packagesToRelease,
                 pkgsLeftToGetBumpTypeFor, i, packages, pkgsForThisBumpType, kPkg,
                 releases, type, fieldVars, localVars, writerVars>>

askQuestionWithEditor ==
  /\ pc = "askQuestionWithEditor"
  /\ \E outcome \in EditorOutcomes :
       IF editorGaveSummary(outcome)
       THEN Return(Changeset(TRUE, outcome, releases))
       ELSE /\ pc' = "askSummaryAgain"
            /\ UNCHANGED <<retries, newChangeset>>
  /\ asked' = Asked("editor")
  /\ UNCHANGED <<inputVars, render, thrown, confirmLog, packagesToRelease,
                 pkgsLeftToGetBumpTypeFor, i, packages, pkgsForThisBumpType, kPkg,
                 releases, type, fieldVars, localVars, writerVars>>

\* lines 244-249: asked until the answer is not empty
askSummaryAgain ==
  /\ pc = "askSummaryAgain"
  /\ \E summary \in ConsoleAnswers :
       /\ summaryIsEmpty(summary) => MayBeEmpty
       /\ IF summaryIsEmpty(summary)
          THEN /\ retries' = retries + 1
               /\ UNCHANGED <<pc, newChangeset>>
          ELSE Return(Changeset(FALSE, summary, releases))
  /\ UNCHANGED <<inputVars, render, thrown, obsVars, packagesToRelease,
                 pkgsLeftToGetBumpTypeFor, i, packages, pkgsForThisBumpType, kPkg,
                 releases, type, fieldVars, localVars, writerVars>>

(***************************************************************************)
(* writeChangesetList, lines 599-673                                       *)
(***************************************************************************)
Call(op, idx, id) == [op |-> op, changeset |-> idx, id |-> id]

\* getCommitFunctions(config.commit, cwd): getAddMessage exists with a commit option
getAddMessage == config.commit

\* a check that looks at the last release only
lastReleaseIsMajor(changeset) ==
  /\ Len(changeset.releases) > 0
  /\ changeset.releases[Len(changeset.releases)].type = "major"

\* line 639
hasMajorChange(changeset) ==
  \E j \in 1..Len(changeset.releases) : changeset.releases[j].type = "major"

\* a writer that asks about every changeset
alwaysNeedsConfirmation(changeset) == TRUE

\* line 612: the writer asks about a changeset that is not confirmed yet
needsConfirmation(changeset) == ~changeset.confirmed

\* a writer that commits before it stages
commitBeforeAdd(changeset, idx, id) ==
  <<Call("writeChangeset", idx, id), Call("git.commit", idx, id),
    Call("git.add", idx, id), Call("log", idx, id)>>

\* lines 621-671: the calls made for a changeset that is persisted as number id
persistCalls(changeset, idx, id) ==
  <<Call("writeChangeset", idx, id)>>
  \o (IF getAddMessage THEN <<Call("git.add", idx, id), Call("git.commit", idx, id)>>
                       ELSE <<>>)
  \o (IF hasMajorChange(changeset) THEN <<Call("warn", idx, id)>>
                                   ELSE <<Call("log", idx, id)>>)
  \o (IF open THEN <<Call("spawn", idx, id)>> ELSE <<>>)

LaunchError == "editor launch failed"

\* lines 660-670: new ExternalEditor(), cleanup() and spawn() are not guarded;
\* the launch that was just made is the one that throws
launchThrows(cl) ==
  /\ open
  /\ failingLaunch > 0
  /\ Cardinality({j \in 1..Len(cl) : cl[j].op = "spawn"}) = failingLaunch

RECURSIVE forChangeset(_, _, _, _)

\* a writer that hands the store the newest changeset in place of the oldest
persistNewestFirst(list, idx, changeset, wr, cl) ==
  LET wr2 == <<changeset>> \o wr
      cl2 == cl \o persistCalls(changeset, idx, Len(wr) + 1)
  IN  forChangeset(list, idx + 1, wr2, cl2)

\* lines 621-672 for the confirmed changeset at idx, then the rest of the loop
persist(list, idx, changeset, wr, cl) ==
  LET wr2 == Append(wr, changeset)
      cl2 == cl \o persistCalls(changeset, idx, Len(wr) + 1)
  IN  IF launchThrows(cl2)
      THEN [pc |-> "Error", thrown |-> LaunchError, wIdx |-> idx,
            written |-> wr2, calls |-> cl2]
      ELSE forChangeset(list, idx + 1, wr2, cl2)

\* the loop of line 609 from the idx-th changeset up to the next prompt
forChangeset(list, idx, wr, cl) ==
  IF idx > Len(list)
  THEN [pc |-> "done", thrown |-> None, wIdx |-> idx, written |-> wr, calls |-> cl]
  ELSE IF needsConfirmation(list[idx])
       THEN [pc |-> "askDesired", thrown |-> None, wIdx |-> idx, written |-> wr,
             calls |-> cl]
       ELSE persist(list, idx, list[idx], wr, cl)

ResumeWriter(st) ==
  /\ pc' = st.pc
  /\ thrown' = st.thrown
  /\ wIdx' = st.wIdx
  /\ written' = st.written
  /\ calls' = st.calls

\* the session hands a list to writeChangesetList
StartWriter(list) ==
  /\ changesets' = list
  /\ ResumeWriter(forChangeset(list, 1, <<>>, <<>>))
  /\ UNCHANGED <<askedDesired, declined>>

\* a writer that persists what the user declined
neverSkipped(changeset) == FALSE

\* line 619: if (!changeset.confirmed) continue
isSkipped(changeset) == ~changeset.confirmed

\* lines 612-619: "Is this your desired changeset?" is answered
askDesired ==
  /\ pc = "askDesired"
  /\ \E answer \in BOOLEAN :
       LET changeset == [changesets[wIdx] EXCEPT !.confirmed = answer]
       IN  /\ IF isSkipped(changeset)
              THEN ResumeWriter(forChangeset(changesets, wIdx + 1, written, calls))
              ELSE ResumeWriter(persist(changesets, wIdx, changeset, written, calls))
           /\ declined' = IF answer THEN declined ELSE declined \cup {wIdx}
  /\ askedDesired' = askedDesired \cup {wIdx}
  /\ asked' = Asked("desired")
  /\ UNCHANGED <<inputVars, render, retries, createVars, fieldVars, localVars,
                 changesets, confirmLog>>

(***************************************************************************)
(* ChangesetsWithChangeTypes, lines 425-474, and the functions it calls    *)
(***************************************************************************)
allCategoriesOfChange ==
  << "Added (New functionality, arg options, more UI elements)",
     "Changed (Visual changes, internal changes, API changes)",
     "Removed (Dead code, feature flags, consumer API's)",
     "Types (Strictly related to the type system and should not have impact on runtime code) ",
     "Documentation (README, general docs, package.json metadata)",
     "Infra (Tooling, performance, things that are under the hood but should have no impact if a consumer upgraded)",
     "UX (UX change)",
     "Misc (Anything else not noted above)" >>

\* the boxes the user may tick at "What kind of change are you making?"
CategoryAnswers == SubSeqs(SubSeq(allCategoriesOfChange, 1, MaxCategories))

\* cli.askQuestion at a description prompt
DescriptionAnswers == {"", "first description", "second description"}

Undefined == "(undefined)"
\* if (previousAnswer): undefined and the empty string are falsy
Truthy(v) == v # Undefined /\ v # ""

NoCollect ==
  [idx |-> 0, first |-> None, questions |-> 0, editor |-> 0, edited |-> None,
   done |-> FALSE]

\* a grouping that takes the bump type of every release, repeated or not
bumpTypeOfEach(rels) == [j \in 1..Len(rels) |-> rels[j].type]

\* line 496: new Set(releases.map(rel => rel.type))
bumpTypesOf(rels) == NewSet([j \in 1..Len(rels) |-> rels[j].type])

\* an annotation that keeps only the last change type
withLastChangeType(rel, list) ==
  [name |-> rel.name, type |-> rel.type,
   changeTypes |-> IF list = <<>> THEN <<>> ELSE <<list[Len(list)]>>]

\* lines 549 and 577-579: { ...release, changeTypes }
withChangeTypes(rel, list) ==
  [name |-> rel.name, type |-> rel.type, changeTypes |-> list]

\* a getReleasesPerBumpType that forgets to filter by bump type
allReleasesWithChangeTypes(rels, bumpType, list) ==
  [j \in 1..Len(rels) |-> [name |-> rels[j].name, type |-> rels[j].type,
                           changeTypes |-> list]]

\* lines 547-549: the releases of one bump type, annotated
releasesWithChangeTypes(rels, bumpType, list) ==
  LET sel == FilterIn(rels, {r \in Range(rels) : r.type = bumpType})
  IN  [j \in 1..Len(sel) |-> withChangeTypes(sel[j], list)]

\* a collector that asks for a summary as soon as a category was described
summaryAfterDescription(sameMessage, answers, category) ==
  IF Truthy(answers[category]) THEN "setSummary" ELSE "askDescription"

\* getDescriptionWithPrev, lines 679-684: the prompt the next category starts with
descriptionPrompt(sameMessage, answers, category) ==
  IF ~sameMessage /\ Truthy(answers[category]) THEN "askReuse" ELSE "askDescription"

\* setSummary, line 697: the first prompt of setSummary
summaryPrompt == IF config.alwaysOpenEditor THEN "setSummaryEditor" ELSE "setSummary"

\* setSummaries (lines 458-465) starts on the list setChangesetList built, then
\* getFinalChangesetList (lines 467-473) and the writer
StartSetSummaries(list) ==
  /\ changesetList' = list
  /\ IF Len(list) = 0
     THEN /\ pc' = "Error"
          /\ thrown' = "changesetList must be set"
          /\ UNCHANGED sIdx
     ELSE /\ pc' = summaryPrompt
          /\ thrown' = thrown
          /\ sIdx' = 1
  /\ invoked' = Append(invoked, "setSummaries")
  /\ UNCHANGED <<writerVars, collect>>

\* a description d was obtained for category cIdx of group gIdx
Described(d, answers) ==
  LET list == Append(changeTypeList,
                     [description |-> d, category |-> chosenChangeTypeList[cIdx]])
      groups == bumpTypesOf(thisReleases)
  IN  /\ previousAnswers' = answers
      /\ IF cIdx < Len(chosenChangeTypeList)
         THEN /\ cIdx' = cIdx + 1
              /\ changeTypeList' = list
              /\ pc' = descriptionPrompt(isSameMessageForAllPkgs, answers,
                                         chosenChangeTypeList[cIdx + 1])
              /\ UNCHANGED <<gIdx, releaseWithChangeTypeList, newChangesetList,
                             changesetList, invoked, sIdx, thrown,
                             writerVars, collect>>
         ELSE LET rw == releaseWithChangeTypeList \o
                          releasesWithChangeTypes(thisReleases, groups[gIdx], list)
                  nl == Append(newChangesetList,
                               Changeset(FALSE, "",
                                         <<withChangeTypes(thisReleases[gIdx], list)>>))
                  last == IF isSameMessageForAllPkgs THEN gIdx = Len(groups)
                                                     ELSE gIdx = Len(thisReleases)
              IN  /\ cIdx' = 1
                  /\ changeTypeList' = <<>>
                  /\ IF isSameMessageForAllPkgs
                     THEN releaseWithChangeTypeList' = rw /\ UNCHANGED newChangesetList
                     ELSE newChangesetList' = nl /\ UNCHANGED releaseWithChangeTypeList
                  /\ IF last
                     THEN /\ UNCHANGED gIdx
                          /\ StartSetSummaries(IF isSameMessageForAllPkgs
                                               THEN <<Changeset(FALSE, "", rw)>>
                                               ELSE nl)
                     ELSE /\ gIdx' = gIdx + 1
                          /\ pc' = descriptionPrompt(isSameMessageForAllPkgs, answers,
                                                     chosenChangeTypeList[1])
                          /\ UNCHANGED <<changesetList, invoked, sIdx, thrown,
                                         writerVars, collect>>

\* the operations of ChangesetsWithChangeTypes, in the order the session
\* invokes them
operations == <<"setChangeTypeList", "setReleases", "setChangesetList",
                "setSummaries", "getFinalChangesetList">>

\* a setChangeTypeList that activates the collector on any answer
isWithChangeTypesAlways(answer) == TRUE

\* line 439: chosenChangeTypeList?.length > 0
isWithChangeTypesAfter(answer) == Len(answer) > 0

\* getChangeTypeList, lines 476-489, is answered; setChangeTypeList (436-440),
\* setReleases (442-445) and setChangesetList (447-456) run up to the next prompt
getChangeTypeList ==
  /\ pc = "getChangeTypeList"
  /\ \E answer \in CategoryAnswers :
       LET with == isWithChangeTypesAfter(answer)
           rels == IF with THEN newChangeset[1].releases ELSE thisReleases
       IN  /\ chosenChangeTypeList' = answer
           /\ isWithChangeTypes' = with
           /\ thisReleases' = rels
           /\ IF ~with
              THEN \* every later operation returns at once; no list comes back
                   /\ invoked' = invoked \o operations
                   /\ StartWriter(newChangeset)
              ELSE /\ invoked' = invoked \o SubSeq(operations, 1, 3)
                   /\ IF Len(rels) = 0 \/ Len(answer) = 0
                      THEN /\ pc' = "Error"
                           /\ thrown' = "releases and chosenChangeTypeList must be set"
                           /\ UNCHANGED writerVars
                      ELSE /\ pc' = "askSameMessage"
                           /\ UNCHANGED <<thrown, writerVars>>
  /\ asked' = Asked("categories")
  /\ UNCHANGED <<inputVars, render, retries, createVars, changesetList, localVars, confirmLog>>

\* getChangesetList, lines 498-500: the grouping question is answered
askSameMessage ==
  /\ pc = "askSameMessage"
  /\ \E answer \in BOOLEAN :
       /\ isSameMessageForAllPkgs' = answer
       /\ previousAnswers' = [cat \in Range(chosenChangeTypeList) |-> Undefined]
       /\ pc' = descriptionPrompt(answer, previousAnswers', chosenChangeTypeList[1])
  /\ gIdx' = 1
  /\ cIdx' = 1
  /\ changeTypeList' = <<>>
  /\ releaseWithChangeTypeList' = <<>>
  /\ newChangesetList' = <<>>
  /\ asked' = Asked("sameMessage")
  /\ UNCHANGED <<inputVars, render, retries, thrown, createVars, fieldVars, sIdx, collect,
                 writerVars, confirmLog>>

\* a cache that keeps the first text typed for a category
rememberFirst(answers, category, description) ==
  IF answers[category] = Undefined
  THEN [answers EXCEPT ![category] = description]
  ELSE answers

\* line 687: previousAnswers[category] = description
remember(answers, category, description) ==
  [answers EXCEPT ![category] = description]

\* a reuse that always returns the same text
reusedFirstDescription(answers, category) == "first description"

\* line 684: return previousAnswer
reusedAnswer(answers, category) == answers[category]

\* lines 541-543 and 686-688: a description is typed
askDescription ==
  /\ pc = "askDescription"
  /\ \E description \in DescriptionAnswers :
       Described(description,
                 IF isSameMessageForAllPkgs THEN previousAnswers
                 ELSE remember(previousAnswers, chosenChangeTypeList[cIdx], description))
  /\ asked' = Asked("description")
  /\ UNCHANGED <<inputVars, render, retries, createVars, isWithChangeTypes, thisReleases,
                 chosenChangeTypeList, isSameMessageForAllPkgs, confirmLog>>

\* lines 681-684: the offer to reuse the previous answer is answered
askReuse ==
  /\ pc = "askReuse"
  /\ \E shouldReusePreviousAnswer \in BOOLEAN :
       IF shouldReusePreviousAnswer
       THEN /\ Described(reusedAnswer(previousAnswers, chosenChangeTypeList[cIdx]),
                         previousAnswers)
            /\ asked' = [asked EXCEPT !["reuse"] = @ + 1, !["reused"] = @ + 1]
       ELSE /\ pc' = "askDescription"
            /\ asked' = Asked("reuse")
            /\ UNCHANGED <<gIdx, cIdx, changeTypeList, releaseWithChangeTypeList,
                           newChangesetList, previousAnswers, changesetList, invoked,
                           sIdx, thrown, writerVars, collect>>
  /\ UNCHANGED <<inputVars, render, retries, createVars, isWithChangeTypes, thisReleases,
                 chosenChangeTypeList, isSameMessageForAllPkgs, confirmLog>>

(***************************************************************************)
(* setSummary, lines 691-724                                               *)
(***************************************************************************)
\* a setSummary that marks every summary as confirmed
withSummaryConfirmed(changeset, summary, confirmed) ==
  [changeset EXCEPT !.summary = summary, !.confirmed = TRUE]

\* lines 704-706 and 722-723
withSummary(changeset, summary, confirmed) ==
  [changeset EXCEPT !.summary = summary, !.confirmed = confirmed]

\* the changeset gets its summary; setSummaries (lines 458-465) goes on
\* to the next changeset, and after the last one getFinalChangesetList (lines
\* 467-473) returns the list, which the session hands to the writer
SummarySet(summary, confirmed, seen) ==
  LET list == [changesetList EXCEPT ![sIdx] = withSummary(@, summary, confirmed)]
  IN  /\ changesetList' = list
      /\ collect' = [seen EXCEPT !.done = TRUE]
      /\ retries' = 0
      /\ IF sIdx < Len(changesetList)
         THEN /\ sIdx' = sIdx + 1
              /\ pc' = summaryPrompt
              /\ UNCHANGED <<writerVars, invoked, thrown>>
         ELSE /\ UNCHANGED sIdx
              /\ invoked' = Append(invoked, "getFinalChangesetList")
              /\ StartWriter(list)

\* what this call of setSummary has asked, before the prompt now answered
Collecting == IF collect.done \/ collect.idx # sIdx
              THEN [NoCollect EXCEPT !.idx = sIdx]
              ELSE collect

\* line 697: "Summary" is answered
setSummary ==
  /\ pc = "setSummary"
  /\ \E summary \in ConsoleAnswers :
       LET seen == [Collecting EXCEPT !.first = summary, !.questions = 1]
       IN  IF summaryIsEmpty(summary)
           THEN /\ pc' = "setSummaryEditor"
                /\ collect' = seen
                /\ UNCHANGED <<retries, thrown, changesetList, invoked, sIdx, writerVars>>
           ELSE SummarySet(summary, FALSE, seen)
  /\ asked' = Asked("Summary")
  /\ UNCHANGED <<inputVars, render, createVars, isWithChangeTypes, thisReleases,
                 chosenChangeTypeList, gIdx, cIdx, isSameMessageForAllPkgs,
                 changeTypeList, releaseWithChangeTypeList, newChangesetList,
                 previousAnswers, confirmLog>>

\* lines 699-712: the editor returns
setSummaryEditor ==
  /\ pc = "setSummaryEditor"
  /\ \E outcome \in EditorOutcomes :
       LET seen == [Collecting EXCEPT !.editor = 1, !.edited = outcome]
       IN  IF editorGaveSummary(outcome)
           THEN SummarySet(outcome, TRUE, seen)
           ELSE /\ pc' = "setSummaryAgain"
                /\ collect' = seen
                /\ UNCHANGED <<retries, thrown, changesetList, invoked, sIdx, writerVars>>
  /\ asked' = Asked("editor")
  /\ UNCHANGED <<inputVars, render, createVars, isWithChangeTypes, thisReleases,
                 chosenChangeTypeList, gIdx, cIdx, isSameMessageForAllPkgs,
                 changeTypeList, releaseWithChangeTypeList, newChangesetList,
                 previousAnswers, confirmLog>>

\* lines 714-719: asked until the answer is not empty
setSummaryAgain ==
  /\ pc = "setSummaryAgain"
  /\ \E summary \in ConsoleAnswers :
       LET seen == [collect EXCEPT !.questions = @ + 1]
       IN  /\ summaryIsEmpty(summary) => MayBeEmpty
           /\ IF summaryIsEmpty(summary)
              THEN /\ retries' = retries + 1
                   /\ collect' = seen
                   /\ UNCHANGED <<pc, thrown, changesetList, invoked, sIdx, writerVars>>
              ELSE SummarySet(summary, FALSE, seen)
  /\ UNCHANGED <<inputVars, render, createVars, isWithChangeTypes, thisReleases,
                 chosenChangeTypeList, gIdx, cIdx, isSameMessageForAllPkgs,
                 changeTypeList, releaseWithChangeTypeList, newChangesetList,
                 previousAnswers, obsVars>>

(***************************************************************************)
(* The add command: the session around createChangeset, the collector and  *)
(* the writer.                                                             *)
(***************************************************************************)
add ==
  /\ pc = "add"
  /\ IF empty
     THEN /\ newChangeset' = <<Changeset(TRUE, "", <<>>)>>
          /\ StartWriter(<<Changeset(TRUE, "", <<>>)>>)
     ELSE /\ newChangeset' = newChangeset
          /\ pc' = IF isMultiPackage THEN "askInitialReleaseQuestion" ELSE "askList"
          /\ UNCHANGED <<thrown, writerVars>>
  /\ UNCHANGED <<inputVars, render, retries, obsVars, fieldVars, localVars>>
  /\ UNCHANGED <<packagesToRelease, pkgsLeftToGetBumpTypeFor, i, packages,
                 pkgsForThisBumpType, kPkg, releases, type>>

\* createChangeset has returned
createChangesetReturned ==
  /\ pc = "createChangesetReturned"
  /\ IF config.shouldAskForChangeTypes
     THEN /\ pc' = "getChangeTypeList"
          /\ UNCHANGED <<thrown, writerVars>>
     ELSE StartWriter(newChangeset)
  /\ UNCHANGED <<inputVars, render, retries, createVars, fieldVars, localVars, obsVars>>

(***************************************************************************)
(* The specification.                                                      *)
(***************************************************************************)
Configs(shouldAsk) ==
  [commit : BOOLEAN, shouldAskForChangeTypes : {shouldAsk}, alwaysOpenEditor : BOOLEAN]

\* the releases of one bump type, in workspace order
releasesOfType(names, typeOf, bumpType) ==
  LET sel == FilterIn(names, {n \in DOMAIN typeOf : typeOf[n] = bumpType})
  IN  [j \in 1..Len(sel) |-> [name |-> sel[j], type |-> bumpType]]

\* the release lists createChangeset returns in a workspace
ReleaseLists(pkgs) ==
  IF Len(pkgs) > 1
  THEN {releasesOfType(Names(pkgs), typeOf, "major")
          \o releasesOfType(Names(pkgs), typeOf, "minor")
          \o releasesOfType(Names(pkgs), typeOf, "patch")
          \o releasesOfType(Names(pkgs), typeOf, "none") :
        typeOf \in UNION {[chosen -> Range(bumpTypes)] :
                           chosen \in SUBSET Range(Names(pkgs))}}
  ELSE {<<[name |-> pkgs[1].name, type |-> t]>> : t \in {"patch", "minor", "major"}}

(***************************************************************************)
(* A caller that invokes the operations of a fresh ChangesetsWithChangeTypes *)
(* in an order of its own, each at most once. An operation that returns or   *)
(* throws leaves the caller in control; one that starts to prompt is         *)
(* followed by the remaining operations in the order of the session.         *)
(***************************************************************************)
notYetInvoked(operation) == operation \notin Range(invoked)

\* lines 436-440
callSetChangeTypeList ==
  /\ pc = "caller"
  /\ notYetInvoked("setChangeTypeList")
  /\ \E answer \in CategoryAnswers :
       /\ chosenChangeTypeList' = answer
       /\ isWithChangeTypes' = isWithChangeTypesAfter(answer)
  /\ invoked' = Append(invoked, "setChangeTypeList")
  /\ asked' = Asked("categories")
  /\ UNCHANGED <<inputVars, render, ctrlVars, createVars, thisReleases, changesetList,
                 localVars, writerVars, confirmLog>>

\* lines 442-445
callSetReleases ==
  /\ pc = "caller"
  /\ notYetInvoked("setReleases")
  /\ \E rels \in ReleaseLists(allPackages) :
       thisReleases' = IF ~isWithChangeTypes THEN thisReleases ELSE rels
  /\ invoked' = Append(invoked, "setReleases")
  /\ UNCHANGED <<inputVars, render, ctrlVars, createVars, isWithChangeTypes,
                 chosenChangeTypeList, changesetList, localVars, writerVars, obsVars>>

\* lines 447-456
callSetChangesetList ==
  /\ pc = "caller"
  /\ notYetInvoked("setChangesetList")
  /\ IF ~isWithChangeTypes
     THEN UNCHANGED <<pc, thrown>>
     ELSE IF Len(thisReleases) = 0 \/ Len(chosenChangeTypeList) = 0
     THEN /\ pc' = "Error"
          /\ thrown' = "releases and chosenChangeTypeList must be set"
     ELSE /\ pc' = "askSameMessage"
          /\ UNCHANGED thrown
  /\ invoked' = Append(invoked, "setChangesetList")
  /\ UNCHANGED <<inputVars, render, retries, createVars, isWithChangeTypes, thisReleases,
                 chosenChangeTypeList, changesetList, localVars, writerVars, obsVars>>

\* lines 458-465
callSetSummaries ==
  /\ pc = "caller"
  /\ notYetInvoked("setSummaries")
  /\ IF ~isWithChangeTypes
     THEN /\ invoked' = Append(invoked, "setSummaries")
          /\ UNCHANGED <<ctrlVars, changesetList, sIdx, collect, writerVars>>
     ELSE /\ StartSetSummaries(changesetList)
          /\ UNCHANGED retries
  /\ UNCHANGED <<inputVars, render, createVars, isWithChangeTypes, thisReleases,
                 chosenChangeTypeList, gIdx, cIdx, isSameMessageForAllPkgs,
                 changeTypeList, releaseWithChangeTypeList, newChangesetList,
                 previousAnswers, obsVars>>

\* lines 467-473
callGetFinalChangesetList ==
  /\ pc = "caller"
  /\ notYetInvoked("getFinalChangesetList")
  /\ IF ~isWithChangeTypes
     THEN UNCHANGED <<pc, thrown>>
     ELSE IF Len(changesetList) = 0
     THEN /\ pc' = "Error"
          /\ thrown' = "changesetList must be set"
     ELSE UNCHANGED <<pc, thrown>>
  /\ invoked' = Append(invoked, "getFinalChangesetList")
  /\ UNCHANGED <<inputVars, render, retries, createVars, isWithChangeTypes, thisReleases,
                 chosenChangeTypeList, changesetList, localVars, writerVars, obsVars>>

(***************************************************************************)
(* groupByBumpType, getReleasesSection, getChangeTypesSection and          *)
(* getChangesetContent, lines 726-791.                                     *)
(*                                                                         *)
(* A string is the sequence of its lines, each ended by "\n" in the code;  *)
(* a line is the sequence of the non-empty pieces it is concatenated from. *)
(***************************************************************************)
Line(pieces) == FilterIn(pieces, Range(pieces) \ {""})

BlankLine == <<>>

\* lines 419-421: kind.split(" ")[0], for the categories of line 409
kindTitles ==
  <<"Added", "Changed", "Removed", "Types", "Documentation", "Infra", "UX", "Misc">>

getKindTitle(kind) ==
  kindTitles[CHOOSE k \in 1..Len(allCategoriesOfChange) : allCategoriesOfChange[k] = kind]

\* rel.changeTypes is truthy: the field is there (an empty array is truthy)
carriesChangeTypes(rel) == "changeTypes" \in DOMAIN rel

\* Array.prototype.filter on releases by their type
ofTypes(rels, types) == FilterIn(rels, {r \in Range(rels) : r.type \in types})

\* a grouping that drops the releases of a type it does not know
groupByKnownBumpType(rels) ==
  [major |-> ofTypes(rels, {"major"}),
   minor |-> ofTypes(rels, {"minor"}),
   patch |-> ofTypes(rels, {"patch"}),
   none  |-> <<>>]

\* lines 726-739: major, minor and patch go to their bucket, everything else
\* to major; nothing is pushed to none
groupByBumpType(rels) ==
  [major |-> ofTypes(rels, {r.type : r \in Range(rels)} \ {"minor", "patch"}),
   minor |-> ofTypes(rels, {"minor"}),
   patch |-> ofTypes(rels, {"patch"}),
   none  |-> <<>>]

\* Object.entries(...) of line 768: the buckets in the order of line 738
entries(buckets) ==
  <<[bumpType |-> "major", releases |-> buckets.major],
    [bumpType |-> "minor", releases |-> buckets.minor],
    [bumpType |-> "patch", releases |-> buckets.patch],
    [bumpType |-> "none",  releases |-> buckets.none]>>

\* line 742: "name": type
releaseLine(rel) == Line(<<"\"", rel.name, "\": ", rel.type>>)

\* lines 740-744: ---, the release lines joined by "\n", ---
getReleasesSection(rels) ==
  <<Line(<<"---">>)>>
  \o (IF rels = <<>> THEN <<BlankLine>>
                     ELSE [j \in 1..Len(rels) |-> releaseLine(rels[j])])
  \o <<Line(<<"---">>)>>

\* Array.prototype.flatMap of line 753
RECURSIVE flatChangeTypes(_)
flatChangeTypes(rels) ==
  IF rels = <<>> THEN <<>>
  ELSE (IF carriesChangeTypes(Head(rels)) THEN Head(rels).changeTypes ELSE <<>>)
       \o flatChangeTypes(Tail(rels))

\* line 757: filter(chk => chk.description)
RECURSIVE withDescription(_)
withDescription(changeTypes) ==
  IF changeTypes = <<>> THEN <<>>
  ELSE (IF Head(changeTypes).description # "" THEN <<Head(changeTypes)>> ELSE <<>>)
       \o withDescription(Tail(changeTypes))

\* line 758: - [ title ] description
bulletLine(chk) == Line(<<"- [ ", getKindTitle(chk.category), " ] ", chk.description>>)

\* a section that prints the empty descriptions as well
bulletsOfAll(changeTypes) ==
  [j \in 1..Len(changeTypes) |-> bulletLine(changeTypes[j])]

\* lines 756-759: the bullets of the change types that have a description
bulletsOf(changeTypes) ==
  LET kept == withDescription(changeTypes)
  IN  [j \in 1..Len(kept) |-> bulletLine(kept[j])]

\* lines 745-760; bumpType is Undefined when the argument is left out
getChangeTypesSection(rels, bumpType) ==
  LET ofBumpType == ofTypes(rels, {bumpType})
      changeTypes ==
        IF bumpType # Undefined
        THEN IF ofBumpType = <<>> \/ ~carriesChangeTypes(ofBumpType[1])
             THEN <<>>
             ELSE ofBumpType[1].changeTypes
        ELSE flatChangeTypes(rels)
      bullets == bulletsOf(changeTypes)
  IN  \* the bullets joined by "\n", then "\n": without bullets one empty line
      IF bullets = <<>> THEN <<BlankLine>> ELSE bullets

\* Array.prototype.join("\n") on strings that each end with "\n"
RECURSIVE joinSections(_)
joinSections(sections) ==
  IF sections = <<>> THEN <<>>
  ELSE IF Len(sections) = 1 THEN sections[1]
  ELSE sections[1] \o <<BlankLine>> \o joinSections(Tail(sections))

RECURSIVE nonEmptyGroups(_)
nonEmptyGroups(groups) ==
  IF groups = <<>> THEN <<>>
  ELSE (IF Len(Head(groups).releases) > 0 THEN <<Head(groups)>> ELSE <<>>)
       \o nonEmptyGroups(Tail(groups))

Null == [isNull |-> TRUE, lines |-> <<>>]

Content(lines) == [isNull |-> FALSE, lines |-> lines]

\* a hand-over that renders nothing when the first release has no change types
someFirstChangeTypes(rels) ==
  Len(rels) > 0 /\ carriesChangeTypes(rels[1])

\* lines 767 and 784: releases.some(rel => rel.changeTypes)
someChangeTypes(rels) == \E r \in Range(rels) : carriesChangeTypes(r)

\* lines 762-791
getChangesetContent(rels, summary, splitReleasesByBumpType) ==
  IF splitReleasesByBumpType /\ someChangeTypes(rels)
  THEN LET grouped == nonEmptyGroups(entries(groupByBumpType(rels)))
           section(g) == getReleasesSection(g.releases)
                           \o <<BlankLine>>
                           \o getChangeTypesSection(g.releases, g.bumpType)
       IN  Content(joinSections([k \in 1..Len(grouped) |-> section(grouped[k])])
                     \o <<BlankLine, BlankLine, Line(<<summary>>)>>)
  ELSE IF someChangeTypes(rels)
  THEN LET changeTypesSection == getChangeTypesSection(rels, Undefined)
       IN  Content(getReleasesSection(rels)
                     \o <<Line(<<" ">>)>>
                     \o <<Line(<<"  ">> \o Head(changeTypesSection))>>
                     \o Tail(changeTypesSection)
                     \o <<BlankLine, BlankLine, Line(<<summary>>)>>)
  ELSE Null

(***************************************************************************)
(* Calls of the renderer on a release list and a summary.                  *)
(***************************************************************************)
RenderTypes == Range(bumpTypes) \cup {"premajor"}

RenderDescriptions == {"", "first description"}

RenderSummaries == {"", "console summary"}

\* the change-type lists a release may carry
RenderChangeTypeLists ==
  UNION {{[j \in 1..Len(cats) |-> [description |-> d[j], category |-> cats[j]]] :
            d \in [1..Len(cats) -> RenderDescriptions]} :
         cats \in SubSeqs(SubSeq(allCategoriesOfChange, 1, MaxRenderCategories))}

\* the releases of one package: plain, or annotated by the collector
RenderReleasesOf(name) ==
  {[name |-> name, type |-> t] : t \in RenderTypes}
  \cup {[name |-> name, type |-> t, changeTypes |-> l] :
          t \in RenderTypes, l \in RenderChangeTypeLists}

RECURSIVE RenderReleaseLists(_)
RenderReleaseLists(n) ==
  IF n = 0 THEN {<<>>}
  ELSE {Append(l, r) : l \in RenderReleaseLists(n - 1),
                       r \in RenderReleasesOf(PackagePool[n].name)}

NotGrouped == [called |-> FALSE, value |-> groupByBumpType(<<>>)]

NotRendered == [called |-> FALSE, value |-> Null]

NoRender ==
  [releases |-> <<>>, summary |-> "", grouped |-> NotGrouped,
   content |-> [split \in BOOLEAN |-> NotRendered]]

callGroupByBumpType ==
  /\ pc = "render"
  /\ ~render.grouped.called
  /\ render' = [render EXCEPT
                  !.grouped = [called |-> TRUE, value |-> groupByBumpType(render.releases)]]
  /\ UNCHANGED <<inputVars, ctrlVars, createVars, fieldVars, localVars, writerVars,
                 obsVars>>

callGetChangesetContent ==
  /\ pc = "render"
  /\ \E splitReleasesByBumpType \in BOOLEAN :
       /\ ~render.content[splitReleasesByBumpType].called
       /\ render' = [render EXCEPT
                       !.content[splitReleasesByBumpType] =
                          [called |-> TRUE,
                           value |-> getChangesetContent(render.releases, render.summary,
                                                         splitReleasesByBumpType)]]
  /\ UNCHANGED <<inputVars, ctrlVars, createVars, fieldVars, localVars, writerVars,
                 obsVars>>

InitCommon ==
  /\ open \in BOOLEAN
  /\ retries = 0
  /\ thrown = None
  /\ packagesToRelease = <<>>
  /\ pkgsLeftToGetBumpTypeFor = <<>>
  /\ i = 0
  /\ packages = <<>>
  /\ pkgsForThisBumpType = <<>>
  /\ kPkg = 0
  /\ type = None
  /\ isWithChangeTypes = FALSE
  /\ thisReleases = <<>>
  /\ chosenChangeTypeList = <<>>
  /\ changesetList = <<>>
  /\ invoked = <<>>
  /\ gIdx = 0
  /\ cIdx = 0
  /\ isSameMessageForAllPkgs = FALSE
  /\ changeTypeList = <<>>
  /\ releaseWithChangeTypeList = <<>>
  /\ newChangesetList = <<>>
  /\ previousAnswers = <<>>
  /\ sIdx = 0
  /\ collect = NoCollect
  /\ changesets = <<>>
  /\ wIdx = 0
  /\ written = <<>>
  /\ calls = <<>>
  /\ askedDesired = {}
  /\ declined = {}
  /\ asked = [kind \in PromptKinds |-> 0]
  /\ confirmLog = {}

\* a session from its start, without change types
InitAdd ==
  /\ allPackages \in Workspaces
  /\ changedPackages \in SubSeqs(Names(allPackages))
  /\ empty \in BOOLEAN
  /\ config \in Configs(FALSE)
  /\ pc = "add"
  /\ releases = <<>>
  /\ newChangeset = <<>>
  /\ InitCommon
  /\ failingLaunch \in IF open THEN 0..1 ELSE {0}
  /\ render = NoRender

\* a session with change types, from the return of createChangeset on
InitChangeTypes ==
  /\ allPackages \in {SubSeq(PackagePool, 1, n) : n \in 1..MaxPkgs}
  /\ changedPackages = <<>>
  /\ empty = FALSE
  /\ config \in Configs(TRUE)
  /\ pc = "createChangesetReturned"
  /\ releases \in ReleaseLists(allPackages)
  /\ newChangeset \in {<<Changeset(FALSE, "console summary", releases)>>,
                       <<Changeset(TRUE, "editor summary", releases)>>}
  /\ InitCommon
  /\ failingLaunch \in IF open THEN 0..MaxPkgs ELSE {0}
  /\ render = NoRender

Init == InitAdd \/ InitChangeTypes

Next ==
  \/ add
  \/ askInitialReleaseQuestion
  \/ choosePkgsForBumpType
  \/ confirmMajorRelease
  \/ askList
  \/ askSummary
  \/ askQuestionWithEditor
  \/ askSummaryAgain
  \/ createChangesetReturned
  \/ getChangeTypeList
  \/ askSameMessage
  \/ askDescription
  \/ askReuse
  \/ setSummary
  \/ setSummaryEditor
  \/ setSummaryAgain
  \/ askDesired

Spec == Init /\ [][Next]_vars

\* the sessions without change types: the collector is not activated, so its
\* prompts are never reached
NextAdd ==
  \/ add
  \/ askInitialReleaseQuestion
  \/ choosePkgsForBumpType
  \/ confirmMajorRelease
  \/ askList
  \/ askSummary
  \/ askQuestionWithEditor
  \/ askSummaryAgain
  \/ createChangesetReturned
  \/ askDesired

SpecAdd == InitAdd /\ [][NextAdd]_vars

\* a step of the session other than an answer at one of the two re-ask loops
promptAnswered ==
  \/ add
  \/ choosePkgsForBumpType
  \/ confirmMajorRelease
  \/ askList
  \/ askSummary
  \/ askQuestionWithEditor
  \/ createChangesetReturned
  \/ askDesired

\* the sessions without change types in which every await outside the two
\* re-ask loops resumes: the session is single-threaded, and each of these
\* prompts goes on with whatever answer it gets
SpecTermination == InitAdd /\ [][NextAdd]_vars /\ WF_vars(promptAnswered)

\* a session in which the category question has been answered with at least
\* one category (lines 436-445 have run): setChangesetList is about to ask the
\* grouping question
InitCollector ==
  /\ allPackages \in {SubSeq(PackagePool, 1, n) : n \in 1..MaxCollectorPkgs}
  /\ changedPackages = <<>>
  /\ empty = FALSE
  /\ open = FALSE
  /\ failingLaunch = 0
  /\ config \in Configs(TRUE)
  /\ pc = "askSameMessage"
  /\ retries = 0
  /\ thrown = None
  /\ packagesToRelease = <<>>
  /\ pkgsLeftToGetBumpTypeFor = <<>>
  /\ i = 0
  /\ packages = <<>>
  /\ pkgsForThisBumpType = <<>>
  /\ kPkg = 0
  /\ type = None
  /\ releases \in ReleaseLists(allPackages) \ {<<>>}
  /\ newChangeset = <<Changeset(FALSE, "console summary", releases)>>
  /\ isWithChangeTypes = TRUE
  /\ thisReleases = releases
  /\ chosenChangeTypeList \in
       SubSeqs(SubSeq(allCategoriesOfChange, 1, MaxCollectorCategories)) \ {<<>>}
  /\ changesetList = <<>>
  /\ invoked = SubSeq(operations, 1, 3)
  /\ gIdx = 0
  /\ cIdx = 0
  /\ isSameMessageForAllPkgs = FALSE
  /\ changeTypeList = <<>>
  /\ releaseWithChangeTypeList = <<>>
  /\ newChangesetList = <<>>
  /\ previousAnswers = <<>>
  /\ sIdx = 0
  /\ collect = NoCollect
  /\ changesets = <<>>
  /\ wIdx = 0
  /\ written = <<>>
  /\ calls = <<>>
  /\ askedDesired = {}
  /\ declined = {}
  /\ asked = [kind \in PromptKinds |-> IF kind = "categories" THEN 1 ELSE 0]
  /\ confirmLog = {}
  /\ render = NoRender

\* setChangesetList, up to the first question of setSummaries
NextCollector ==
  \/ askSameMessage
  \/ askDescription
  \/ askReuse

SpecCollector == InitCollector /\ [][NextCollector]_vars

\* the change-type collection of a workspace of up to MaxPkgs packages, from
\* the grouping question to the end of the session
InitCollection ==
  /\ InitCollector
  /\ Len(allPackages) <= MaxPkgs
  /\ ~config.commit

NextCollection ==
  \/ askSameMessage
  \/ askDescription
  \/ askReuse
  \/ setSummary
  \/ setSummaryEditor
  \/ setSummaryAgain
  \/ askDesired

SpecCollection == InitCollection /\ [][NextCollection]_vars

\* a fresh object in the hands of a caller
InitClass ==
  /\ allPackages \in {SubSeq(PackagePool, 1, n) : n \in 1..MaxPkgs}
  /\ changedPackages = <<>>
  /\ empty = FALSE
  /\ config \in Configs(TRUE)
  /\ pc = "caller"
  /\ releases = <<>>
  /\ newChangeset = <<>>
  /\ InitCommon
  /\ failingLaunch \in IF open THEN 0..MaxPkgs ELSE {0}
  /\ render = NoRender

NextClass ==
  \/ callSetChangeTypeList
  \/ callSetReleases
  \/ callSetChangesetList
  \/ callSetSummaries
  \/ callGetFinalChangesetList
  \/ askSameMessage
  \/ askDescription
  \/ askReuse
  \/ setSummary
  \/ setSummaryEditor
  \/ setSummaryAgain
  \/ askDesired

SpecClass == InitClass /\ [][NextClass]_vars

\* the renderer is handed a release list and a summary
InitRender ==
  /\ allPackages = SubSeq(PackagePool, 1, MaxRenderReleases)
  /\ changedPackages = <<>>
  /\ empty = FALSE
  /\ config = [commit |-> FALSE, shouldAskForChangeTypes |-> TRUE,
               alwaysOpenEditor |-> FALSE]
  /\ pc = "render"
  /\ releases = <<>>
  /\ newChangeset = <<>>
  /\ InitCommon
  /\ open = FALSE
  /\ failingLaunch = 0
  /\ render \in [releases : UNION {RenderReleaseLists(n) : n \in 0..MaxRenderReleases},
                 summary : RenderSummaries,
                 grouped : {NotGrouped},
                 content : {[split \in BOOLEAN |-> NotRendered]}]

NextRender ==
  \/ callGroupByBumpType
  \/ callGetChangesetContent

SpecRender == InitRender /\ [][NextRender]_vars

(***************************************************************************)
(* Properties.                                                             *)
(***************************************************************************)
\* release selection of createChangeset is over, the summary is being asked
releaseSelectionFinished ==
  pc \in {"askSummary", "askQuestionWithEditor", "askSummaryAgain"}

\* createChangeset is past getPackagesToRelease and has not returned
pastGetPackagesToRelease ==
  pc \in {"choosePkgsForBumpType", "confirmMajorRelease"} \/ releaseSelectionFinished

releaseNames(rels) == [j \in 1..Len(rels) |-> rels[j].name]

\* the calls of confirmMajorRelease the user declined
declinedConfirms == {c \in confirmLog : ~c.result}

\* C1: in a session that is not the empty-changeset shortcut, every changeset
\* passed to the store has a non-empty summary; a changeset persisted with an
\* empty summary belongs to the shortcut.
C1_PersistedSummaryNonEmpty ==
  /\ ~empty => \A j \in 1..Len(written) : written[j].summary # ""
  /\ Cardinality({j \in 1..Len(calls) : calls[j].op = "writeChangeset"}) = Len(written)
  /\ \A j \in 1..Len(written) :
       written[j].summary = "" => empty /\ written[j] = Changeset(TRUE, "", <<>>)

C1_Witness ==
  /\ ~empty
  /\ pc = "done"
  /\ Len(written) > 0
  /\ \E j \in 1..Len(calls) : calls[j].op = "writeChangeset"

\* C2: in multi-package mode the list getPackagesToRelease hands to bump
\* classification is never empty.
C2_PackagesToReleaseNonEmpty ==
  (isMultiPackage /\ pastGetPackagesToRelease) => Len(packagesToRelease) > 0

\* C3: in multi-package mode, when release selection finishes, the releases name
\* exactly the packages chosen in the initial multi-select, each of them once.
C3_OneReleasePerChosenPackage ==
  (isMultiPackage /\ releaseSelectionFinished) =>
    /\ Range(releaseNames(releases)) = Range(packagesToRelease)
    /\ Len(releases) = Cardinality(Range(packagesToRelease))
    /\ \A j, l \in 1..Len(releases) :
         releases[j].name = releases[l].name => j = l

C3_Witness ==
  /\ isMultiPackage
  /\ pc = "askSummary"
  /\ Len(releases) = 2
  /\ Len(packagesToRelease) = 2
  /\ declinedConfirms # {}

\* C4: in multi-package mode a package whose first-major confirmation was
\* declined is not released as major, is still in the unclassified pool or has
\* got a lower type, and is among the choices of the minor prompt; a package
\* whose major release was confirmed is released as major.
C4_DeclinedMajorStaysInPool ==
  isMultiPackage =>
    \A c \in confirmLog :
      IF c.result
      THEN Release(c.pkg, "major") \in Range(releases)
      ELSE /\ Release(c.pkg, "major") \notin Range(releases)
           /\ \/ c.pkg \in Range(pkgsLeftToGetBumpTypeFor)
              \/ \E r \in Range(releases) : r.name = c.pkg /\ r.type # "major"
           /\ (pc \in {"choosePkgsForBumpType", "confirmMajorRelease"} /\ i = 1)
                => c.pkg \in Range(pkgsLeftToGetBumpTypeFor)
           /\ (pc = "choosePkgsForBumpType" /\ i = 2) => c.pkg \in Range(packages)
           /\ releaseSelectionFinished =>
                \E r \in Range(releases) : r.name = c.pkg /\ r.type # "major"

C4_Witness ==
  /\ isMultiPackage
  /\ pc = "choosePkgsForBumpType"
  /\ i = 2
  /\ declinedConfirms # {}
  /\ \E c \in confirmLog : c.result

\* C5: in multi-package mode the severity multi-selects are asked for major and
\* minor only, and a release has one of the types major, minor and patch.
C5_PromptsForMajorAndMinorOnly ==
  (isMultiPackage /\ pastGetPackagesToRelease) =>
    /\ pc = "choosePkgsForBumpType" => bumpTypes[i] \in {"major", "minor"}
    /\ \A r \in Range(releases) : r.type \in {"major", "minor", "patch"}

\* the version of the package a call of confirmMajorRelease was about
versionOf(name) == pkgJsonsByName(name).version

\* a version below 1.0.0: 0.x.y, or a prerelease of 1.0.0
belowOneZeroZero(v) ==
  \/ v.major = 0
  \/ v.major = 1 /\ v.minor = 0 /\ v.patch = 0 /\ v.pre # <<>>

\* C6: confirmMajorRelease asks exactly for a version below 1.0.0 and then
\* returns the answer; otherwise it returns true and asks nothing.
C6_ConfirmAsksBelowOneZeroZero ==
  /\ \A c \in confirmLog :
       /\ c.asked <=> belowOneZeroZero(versionOf(c.pkg))
       /\ c.asked => c.answer = <<c.result>>
       /\ ~c.asked => c.result /\ c.answer = <<>>
  /\ pc = "confirmMajorRelease" =>
       belowOneZeroZero(versionOf(IF isMultiPackage THEN pkgsForThisBumpType[kPkg]
                                                    ELSE allPackages[1].name))
  /\ asked["firstMajor"] = Cardinality({c \in confirmLog : c.asked})

C6_Witness ==
  \E c, d \in confirmLog :
    /\ c.asked /\ ~c.result
    /\ ~d.asked
    /\ asked["firstMajor"] = 1

\* C7: in single-package mode a declined first-major confirmation ends the
\* session with ExitError(1): no release, no summary question, nothing persisted,
\* and no step afterwards.
C7_SingleDeclineAborts ==
  /\ [][(pc = "confirmMajorRelease" /\ ~isMultiPackage
           /\ \E c \in confirmLog' \ confirmLog : ~c.result)
         => pc' = "ExitError"]_vars
  /\ [](pc = "ExitError" =>
          /\ thrown = "ExitError(1)"
          /\ type = "major"
          /\ releases = <<>>
          /\ newChangeset = <<>>
          /\ asked["Summary"] = 0 /\ asked["editor"] = 0
          /\ written = <<>> /\ calls = <<>> /\ changesets = <<>>)
  /\ [][pc # "ExitError"]_vars

C7_Witness ==
  /\ pc = "ExitError"
  /\ declinedConfirms # {}

\* C8: in single-package mode a createChangeset that is not aborted returns
\* exactly one release, named after the sole package, with the type chosen at
\* askList.
C8_SingleReturnsOneRelease ==
  (~isMultiPackage /\ type # None) =>
    /\ type \in {"patch", "minor", "major"}
    /\ (releaseSelectionFinished \/ pc = "createChangesetReturned") =>
         releases = <<[name |-> allPackages[1].name, type |-> type]>>
    /\ newChangeset # <<>> => newChangeset[1].releases = releases

C8_Witness ==
  /\ ~isMultiPackage
  /\ pc = "createChangesetReturned"
  /\ type = "major"
  /\ \E c \in confirmLog : c.asked /\ c.result

\* C9: when the first console answer of setSummary is not empty, it is the
\* summary, the editor is not invoked, nothing else is asked, and confirmed is
\* false; the same holds for the summary of createChangeset.
C9_ConsoleSummaryIsFinal ==
  /\ (collect.done /\ collect.first \notin {None, ""}) =>
       /\ collect.questions = 1
       /\ collect.editor = 0
       /\ changesetList[collect.idx].summary = collect.first
       /\ ~changesetList[collect.idx].confirmed
  /\ (~collect.done /\ collect.first \notin {None, ""}) => pc = "setSummary"
  /\ (~config.shouldAskForChangeTypes /\ ~empty /\ newChangeset # <<>>
        /\ asked["editor"] = 0) =>
       /\ asked["Summary"] = 1
       /\ newChangeset[1].summary # ""
       /\ ~newChangeset[1].confirmed

C9_Witness ==
  /\ collect.done
  /\ collect.first = "console summary"
  /\ pc = "askDesired"
  /\ changesets = changesetList

\* C10: when the console summary is empty and the editor returns text, the text
\* is the summary with confirmed = true and nothing else is asked; the writer
\* persists a confirmed changeset without asking about it.
C10_EditorSummaryIsConfirmed ==
  /\ (collect.done /\ collect.first = ""
        /\ collect.edited \notin {None, "", EditorError}) =>
       /\ changesetList[collect.idx].summary = collect.edited
       /\ changesetList[collect.idx].confirmed
       /\ collect.questions = 1
       /\ collect.editor = 1
  /\ \A j \in 1..Len(changesets) :
       changesets[j].confirmed =>
         /\ j \notin askedDesired
         /\ j < wIdx => /\ changesets[j] \in Range(written)
                        /\ \E l \in 1..Len(calls) :
                             calls[l].op = "writeChangeset" /\ calls[l].changeset = j

C10_Witness ==
  /\ pc = "done"
  /\ collect.done
  /\ collect.first = ""
  /\ collect.edited = "editor summary"
  /\ changesets = changesetList
  /\ changesets[collect.idx] \in Range(written)
  /\ askedDesired = {}

\* C11: when the console summary is empty and the editor throws or returns
\* nothing, setSummary stays at the free-text question while the answer is
\* empty; it ends with the first non-empty answer as the summary and
\* confirmed = false.
C11_EditorFallbackAsksUntilNonEmpty ==
  /\ [](pc = "setSummaryAgain" =>
          /\ collect.edited \in {"", EditorError}
          /\ changesetList[sIdx].summary = "")
  /\ [][pc = "setSummaryAgain" =>
          \/ /\ pc' = "setSummaryAgain"
             /\ ~collect'.done
             /\ collect'.questions = collect.questions + 1
             /\ changesetList' = changesetList
          \/ /\ collect'.done
             /\ collect'.questions = collect.questions + 1
             /\ changesetList'[sIdx].summary \in ConsoleAnswers \ {""}
             /\ ~changesetList'[sIdx].confirmed]_vars
  /\ []((collect.done /\ collect.first = "" /\ collect.edited \in {"", EditorError}) =>
          /\ changesetList[collect.idx].summary \in ConsoleAnswers \ {""}
          /\ ~changesetList[collect.idx].confirmed
          /\ collect.questions >= 2)

C11_Witness ==
  /\ collect.done
  /\ collect.first = ""
  /\ collect.edited = EditorError
  /\ collect.questions = 3
  /\ changesetList[collect.idx].summary = "console summary"
  /\ ~changesetList[collect.idx].confirmed

\* C12: with config.alwaysOpenEditor the console question "Summary" is never
\* asked, neither by setSummary nor by createChangeset.
C12_AlwaysOpenEditorSkipsConsole ==
  config.alwaysOpenEditor =>
    /\ asked["Summary"] = 0
    /\ pc \notin {"askSummary", "setSummary"}

\* the prompts only an activated collector issues
collectorPrompts ==
  {"askSameMessage", "askDescription", "askReuse", "setSummary", "setSummaryEditor",
   "setSummaryAgain"}

mustBeSetErrors == {"releases and chosenChangeTypeList must be set",
                    "changesetList must be set"}

positionOf(operation) == CHOOSE k \in 1..Len(operations) : operations[k] = operation

invokedBeforePredecessor ==
  /\ Len(invoked) > 0
  /\ LET n == Len(invoked)
         k == positionOf(invoked[n])
     IN  k > 1 /\ operations[k - 1] \notin Range(SubSeq(invoked, 1, n - 1))

C14_OutOfOrderRaisesMustBeSet ==
  invokedBeforePredecessor => thrown \in mustBeSetErrors

\* setChangesetList has stored the list it built and setSummaries has not yet
\* given a summary to any of its changesets
changesetListBuilt ==
  /\ pc \in {"setSummary", "setSummaryEditor", "setSummaryAgain"}
  /\ sIdx = 1

\* the change types of a release name one chosen category each, in order
oneChangeTypePerCategory(rel) ==
  /\ Len(rel.changeTypes) = Len(chosenChangeTypeList)
  /\ \A c \in 1..Len(chosenChangeTypeList) :
       /\ rel.changeTypes[c].category = chosenChangeTypeList[c]
       /\ rel.changeTypes[c].description \in DescriptionAnswers

\* C15: grouped per bump type the collector builds exactly one changeset,
\* unconfirmed and with an empty summary; its release list holds every input
\* release exactly once, each with one change type per chosen category in
\* category order, and two releases of the same bump type carry the identical
\* change-type list.
C15_PerBumpTypeOneChangeset ==
  (changesetListBuilt /\ isSameMessageForAllPkgs) =>
     /\ Len(changesetList) = 1
     /\ ~changesetList[1].confirmed
     /\ changesetList[1].summary = ""
     /\ LET out == changesetList[1].releases
        IN  /\ Len(out) = Len(thisReleases)
            /\ \A j \in 1..Len(thisReleases) :
                 Cardinality({k \in 1..Len(out) :
                                /\ out[k].name = thisReleases[j].name
                                /\ out[k].type = thisReleases[j].type}) = 1
            /\ \A k \in 1..Len(out) : oneChangeTypePerCategory(out[k])
            /\ \A k1, k2 \in 1..Len(out) :
                 out[k1].type = out[k2].type => out[k1].changeTypes = out[k2].changeTypes
     /\ asked["description"] =
          Cardinality({r.type : r \in Range(thisReleases)}) * Len(chosenChangeTypeList)
     /\ asked["reuse"] = 0

\* three releases of two bump types and two categories; the two minor releases
\* share a list the major release does not have
C15_Witness ==
  /\ changesetListBuilt /\ isSameMessageForAllPkgs
  /\ Len(thisReleases) = 3
  /\ Len(chosenChangeTypeList) = 2
  /\ LET out == changesetList[1].releases
     IN  /\ Len(out) = 3
         /\ out[1].type = "major" /\ out[2].type = "minor" /\ out[3].type = "minor"
         /\ out[2].changeTypes = out[3].changeTypes
         /\ out[1].changeTypes # out[2].changeTypes
         /\ out[2].changeTypes[1].description # out[2].changeTypes[2].description

\* C16: grouped per package the collector builds one changeset per input
\* release, in input order, each unconfirmed, with an empty summary and a
\* release list of exactly that release, annotated with one change type per
\* chosen category in category order.
C16_PerPackageOneChangesetEach ==
  (changesetListBuilt /\ ~isSameMessageForAllPkgs) =>
     /\ Len(changesetList) = Len(thisReleases)
     /\ \A j \in 1..Len(changesetList) :
          /\ ~changesetList[j].confirmed
          /\ changesetList[j].summary = ""
          /\ Len(changesetList[j].releases) = 1
          /\ changesetList[j].releases[1].name = thisReleases[j].name
          /\ changesetList[j].releases[1].type = thisReleases[j].type
          /\ oneChangeTypePerCategory(changesetList[j].releases[1])

\* three releases and two categories: three changesets whose descriptions differ
C16_Witness ==
  /\ changesetListBuilt /\ ~isSameMessageForAllPkgs
  /\ Len(thisReleases) = 3
  /\ Len(chosenChangeTypeList) = 2
  /\ Len(changesetList) = 3
  /\ changesetList[1].releases[1].name = "pkg-a"
  /\ changesetList[3].releases[1].name = "pkg-c"
  /\ changesetList[1].releases[1].changeTypes # changesetList[2].releases[1].changeTypes
  /\ changesetList[2].releases[1].changeTypes[1].description = "second description"
  /\ changesetList[3].releases[1].changeTypes[2].description = ""

\* C17: grouped per package, whenever the collector comes to a category of a
\* package, it offers to reuse the previous answer before the fresh prompt if
\* and only if the category was answered for an earlier package, whatever the
\* text of that answer.
comesToNextCategory ==
  /\ ~isSameMessageForAllPkgs'
  /\ pc' \in {"askReuse", "askDescription"}
  /\ <<gIdx', cIdx'>> # <<gIdx, cIdx>>

C17_ReuseOfferedIffAnsweredBefore ==
  [][comesToNextCategory => (pc' = "askReuse" <=> gIdx' > 1)]_vars

\* the change type the step has just pushed for the category it was at
pushedChangeType ==
  IF cIdx < Len(chosenChangeTypeList)
  THEN changeTypeList'[cIdx]
  ELSE IF isSameMessageForAllPkgs
       THEN LET rw == IF pc' \in {"askReuse", "askDescription"}
                      THEN releaseWithChangeTypeList'
                      ELSE changesetList'[1].releases
            IN  rw[Len(rw)].changeTypes[cIdx]
       ELSE LET nl == IF pc' \in {"askReuse", "askDescription"}
                      THEN newChangesetList'
                      ELSE changesetList'
            IN  nl[gIdx].releases[1].changeTypes[cIdx]

\* the description the previous package got for the category the collector is
\* at: the text last entered for that category, typed for that package or
\* reused there from the one typed before
lastEntered == newChangesetList[gIdx - 1].releases[1].changeTypes[cIdx].description

\* the reuse offer is declined: the fresh prompt follows for the same category
declinesReuse ==
  /\ pc = "askReuse"
  /\ pc' = "askDescription"
  /\ <<gIdx', cIdx'>> = <<gIdx, cIdx>>
  /\ changeTypeList' = changeTypeList

acceptsReuse == pc = "askReuse" /\ ~declinesReuse

\* C18: grouped per package, accepting the reuse offer for a category gives
\* the change type the text last entered for that category as its
\* description, asks no fresh question for it and leaves the answer cache
\* unchanged.
C18_AcceptedReuseGivesLastText ==
  [][acceptsReuse =>
       /\ ~isSameMessageForAllPkgs
       /\ gIdx > 1
       /\ pushedChangeType.category = chosenChangeTypeList[cIdx]
       /\ pushedChangeType.description = lastEntered
       /\ asked'["description"] = asked["description"]
       /\ previousAnswers' = previousAnswers]_vars

\* the third package reuses for its first category what the second package
\* typed after declining the text of the first
C18_Witness ==
  /\ ~isSameMessageForAllPkgs
  /\ pc \in {"askReuse", "askDescription"}
  /\ gIdx = 3 /\ cIdx = 2
  /\ asked["reuse"] = 3
  /\ asked["description"] = 3
  /\ newChangesetList[1].releases[1].changeTypes[1].description = "first description"
  /\ newChangesetList[2].releases[1].changeTypes[1].description = "second description"
  /\ changeTypeList[1].description = "second description"

\* C19: grouped per package, a declined reuse offer and a category without a
\* prior answer both lead to the fresh description prompt; after the prompt
\* is answered the cache entry of the category is the fresh answer, so that a
\* reuse offer always proposes the text last entered for its category and
\* never an older one.
C19_FreshAnswerOverwritesCache ==
  /\ [][(/\ pc = "askReuse"
         /\ <<gIdx', cIdx'>> = <<gIdx, cIdx>>
         /\ pc' \in {"askReuse", "askDescription"}) =>
           (declinesReuse /\ previousAnswers' = previousAnswers)]_vars
  /\ [][(comesToNextCategory /\ previousAnswers'[chosenChangeTypeList[cIdx']] = Undefined) =>
           pc' = "askDescription"]_vars
  /\ [][(pc = "askDescription" /\ ~isSameMessageForAllPkgs) =>
           /\ asked'["description"] = asked["description"] + 1
           /\ pushedChangeType.description \in DescriptionAnswers
           /\ previousAnswers'[chosenChangeTypeList[cIdx]] = pushedChangeType.description
           /\ \A c \in DOMAIN previousAnswers \ {chosenChangeTypeList[cIdx]} :
                previousAnswers'[c] = previousAnswers[c]]_vars
  /\ [](pc = "askReuse" =>
           /\ ~isSameMessageForAllPkgs /\ gIdx > 1
           /\ previousAnswers[chosenChangeTypeList[cIdx]] = lastEntered)

\* the second package declined "first description" and typed "second
\* description": that is what the third package is offered
C19_Witness ==
  /\ pc = "askReuse"
  /\ gIdx = 3 /\ cIdx = 1
  /\ asked["reuse"] = 1
  /\ newChangesetList[1].releases[1].changeTypes[1].description = "first description"
  /\ newChangesetList[2].releases[1].changeTypes[1].description = "second description"
  /\ previousAnswers[chosenChangeTypeList[1]] = "second description"

\* the calls the writer made for the idx-th changeset of its list
callsFor(idx) == {j \in 1..Len(calls) : calls[j].changeset = idx}

\* C20: the writer asks about every changeset of its list that is not yet
\* confirmed, and about no other; a changeset the user declines is not passed
\* to the store and causes no git add, no git commit and no editor launch, and
\* the loop goes on with the next changeset.
C20_DeclinedChangesetIsSkipped ==
  /\ \A idx \in 1..Len(changesets) :
       idx < wIdx => (idx \in askedDesired <=> ~changesets[idx].confirmed)
  /\ pc = "askDesired" => (wIdx \in 1..Len(changesets) /\ ~changesets[wIdx].confirmed)
  /\ declined \subseteq askedDesired
  /\ \A idx \in declined : callsFor(idx) = {}
  /\ \A k \in 1..Len(written) : written[k].confirmed
  /\ (wIdx > 0 /\ thrown # LaunchError) =>
       /\ pc \in {"askDesired", "done"}
       /\ pc = "done" <=> wIdx = Len(changesets) + 1
       /\ \A idx \in 1..(wIdx - 1) :
            idx \notin declined =>
              \E j \in callsFor(idx) : calls[j].op = "writeChangeset"
       /\ Len(written) = Cardinality((1..(wIdx - 1)) \ declined)

\* two changesets: the first is declined, the second written, committed and opened
C20_Witness ==
  /\ pc = "done"
  /\ Len(changesets) = 2
  /\ askedDesired = {1, 2}
  /\ declined = {1}
  /\ Len(written) = 1
  /\ written[1].releases = changesets[2].releases
  /\ Len(calls) = 5
  /\ [j \in 1..3 |-> calls[j].op] = <<"writeChangeset", "git.add", "git.commit">>
  /\ calls[Len(calls)].op = "spawn"
  /\ \A j \in 1..Len(calls) : calls[j].changeset = 2

\* the operations the writer called for the changeset persisted as number id,
\* in the order of the calls
opsOf(id) ==
  LET sel == FilterIn(calls, {c \in Range(calls) : c.id = id})
  IN  [j \in 1..Len(sel) |-> sel[j].op]

timesCalled(op) == Cardinality({j \in 1..Len(calls) : calls[j].op = op})

\* C21: with a commit configuration, for every persisted changeset the writer
\* calls the store, then git add, then git commit, in that order; git add and
\* git commit are each called as often as changesets were persisted.
C21_CommitAfterAddAfterWrite ==
  config.commit =>
    /\ \A id \in 1..Len(written) :
         /\ Len(opsOf(id)) >= 3
         /\ SubSeq(opsOf(id), 1, 3) = <<"writeChangeset", "git.add", "git.commit">>
    /\ timesCalled("writeChangeset") = Len(written)
    /\ timesCalled("git.add") = Len(written)
    /\ timesCalled("git.commit") = Len(written)

\* two changesets were persisted and committed one after the other
C21_Witness ==
  /\ config.commit
  /\ pc = "done"
  /\ Len(written) = 2
  /\ timesCalled("git.commit") = 2
  /\ [j \in 1..Len(calls) |-> calls[j].id] = <<1, 1, 1, 1, 2, 2, 2, 2>>

\* C22: without a commit configuration the writer makes no commit, but every
\* changeset file it wrote is staged with git add.
C22_WithoutCommitFileIsStaged ==
  ~config.commit =>
    /\ timesCalled("git.commit") = 0
    /\ \A id \in 1..Len(written) : "git.add" \in Range(opsOf(id))

\* C23: for every persisted changeset the writer shows the warning block
\* exactly when one of its releases is major and the "you can find it here"
\* notice exactly when none is: one of the two, once, never both.
C23_WarningIffMajorRelease ==
  \A id \in 1..Len(written) :
    LET major == \E r \in Range(written[id].releases) : r.type = "major"
        shown == FilterIn(opsOf(id), {"warn", "log"})
    IN  shown = IF major THEN <<"warn">> ELSE <<"log">>

\* of two persisted changesets the one with a major release was warned about
\* and the other got the notice
C23_Witness ==
  /\ pc = "done"
  /\ Len(written) = 2
  /\ written[1].releases[1].type = "major"
  /\ written[2].releases[1].type = "patch"
  /\ "warn" \in Range(opsOf(1))
  /\ "log" \in Range(opsOf(2))

\* C24: with --open the editor is launched on a changeset's file only after
\* the changeset was persisted and never for a declined one; a launch that
\* fails does not fail the session and does not keep the writer from
\* processing the remaining changesets.
C24_FailedLaunchIsNotSurfaced ==
  /\ \A j \in 1..Len(calls) :
       calls[j].op = "spawn" =>
         /\ open
         /\ calls[j].changeset \notin declined
         /\ \E l \in 1..(j - 1) :
              /\ calls[l].op = "writeChangeset"
              /\ calls[l].changeset = calls[j].changeset
  /\ launchThrows(calls) =>
       /\ thrown = None
       /\ pc \in {"askDesired", "done"}

\* the four buckets groupByBumpType returned, in the order major, minor,
\* patch, none
bucketsReturned ==
  <<render.grouped.value.major, render.grouped.value.minor,
    render.grouped.value.patch, render.grouped.value.none>>

bucketNamed(bumpType) ==
  bucketsReturned[CHOOSE k \in 1..4 : bumpTypes[k] = bumpType]

\* how often a release occurs in the four buckets together
occurrences(rel) ==
  Cardinality({<<b, k>> \in (1..4) \X (1..Len(render.releases)) :
                 k <= Len(bucketsReturned[b]) /\ bucketsReturned[b][k] = rel})

\* C25: groupByBumpType partitions its input: every input release is in
\* exactly one of the four buckets, exactly once, the buckets hold nothing
\* else, and every release whose type is not minor, patch or none is in the
\* major bucket.
C25_BucketsPartitionInput ==
  render.grouped.called =>
    /\ \A j \in 1..Len(render.releases) : occurrences(render.releases[j]) = 1
    /\ Len(bucketsReturned[1]) + Len(bucketsReturned[2])
         + Len(bucketsReturned[3]) + Len(bucketsReturned[4]) = Len(render.releases)
    /\ \A j \in 1..Len(render.releases) :
         render.releases[j].type \notin {"minor", "patch", "none"} =>
           render.releases[j] \in Range(bucketNamed("major"))

\* a release of an unknown type and a patch release were grouped
C25_Witness ==
  /\ render.grouped.called
  /\ Len(render.releases) = 2
  /\ render.releases[1].type = "premajor"
  /\ render.releases[2].type = "patch"
  /\ bucketNamed("major") = <<render.releases[1]>>
  /\ bucketNamed("patch") = <<render.releases[2]>>

\* C26: groupByBumpType puts a release of type minor, patch or none in the
\* bucket of that name and only the other types in major; within a bucket the
\* releases keep their input order.
C26_BucketOfSameName ==
  render.grouped.called =>
    /\ \A j \in 1..Len(render.releases) :
         LET rel == render.releases[j]
         IN  rel \in Range(bucketNamed(IF rel.type \in {"minor", "patch", "none"}
                                       THEN rel.type ELSE "major"))
    /\ \A b \in 1..4 :
         bucketsReturned[b] = FilterIn(render.releases, Range(bucketsReturned[b]))

\* what getChangesetContent returned for the split flag, once it was called
rendered(split) == render.content[split].value

wasRendered(split) == render.content[split].called

\* the releases of the input that carry change types
carrying == {j \in 1..Len(render.releases) : "changeTypes" \in DOMAIN render.releases[j]}

\* the change types with a non-empty description of the j-th release
describedOf(j) ==
  {c \in Range(render.releases[j].changeTypes) : c.description # ""}

\* the line is the bullet of the change type, indented or not
isBulletOf(line, chk) ==
  LET bullet == <<"- [ ", getKindTitle(chk.category), " ] ", chk.description>>
  IN  line = bullet \/ line = <<"  ">> \o bullet

isBullet(line) == "- [ " \in Range(line)

isReleaseLineOf(line, rel) == line = <<"\"", rel.name, "\": ", rel.type>>

\* C27: for a release list whose releases all have the same bump type, and
\* every summary, getChangesetContent returns the same content without and
\* with splitReleasesByBumpType.
C27_SplitEqualsPlainForOneBumpType ==
  (/\ wasRendered(FALSE) /\ wasRendered(TRUE)
   /\ \A j, k \in 1..Len(render.releases) :
        render.releases[j].type = render.releases[k].type) =>
     rendered(FALSE) = rendered(TRUE)

\* C28: the content has a bullet line for every change type with a non-empty
\* description that a release carries and none for an empty description; in
\* split rendering the bullet follows the section that lists the release,
\* before the section of another bump type begins.
C28_BulletForEveryDescribedChangeType ==
  \A split \in BOOLEAN :
    (wasRendered(split) /\ ~rendered(split).isNull) =>
      LET lines == rendered(split).lines
      IN  /\ \A j \in carrying : \A c \in describedOf(j) :
                \E k \in 1..Len(lines) :
                  /\ isBulletOf(lines[k], c)
                  /\ split =>
                       \E l \in 1..(k - 1) :
                         /\ isReleaseLineOf(lines[l], render.releases[j])
                         /\ \A m \in l..k : \A o \in 1..Len(render.releases) :
                              isReleaseLineOf(lines[m], render.releases[o]) =>
                                render.releases[o].type = render.releases[j].type
          /\ \A k \in 1..Len(lines) :
               isBullet(lines[k]) =>
                 \E j \in carrying : \E c \in describedOf(j) : isBulletOf(lines[k], c)

\* C29: getChangesetContent returns null exactly when no release of the list
\* carries change types, whatever the split flag and the summary.
C29_NullIffNoChangeTypes ==
  \A split \in BOOLEAN :
    wasRendered(split) => (rendered(split).isNull <=> carrying = {})

\* only the second release carries change types: both calls return content
C29_Witness ==
  /\ wasRendered(FALSE) /\ wasRendered(TRUE)
  /\ carrying = {2}
  /\ render.summary = ""
  /\ ~rendered(FALSE).isNull
  /\ ~rendered(TRUE).isNull

\* C30: when releases carry change types and every description is the empty
\* string, getChangesetContent returns a content block whose front matter
\* lists every release and which has no bullet line.
C30_EmptyDescriptionsGiveNoBullets ==
  \A split \in BOOLEAN :
    (/\ wasRendered(split)
     /\ carrying # {}
     /\ \A j \in carrying : describedOf(j) = {}) =>
       LET lines == rendered(split).lines
           fences == {k \in 1..Len(lines) : lines[k] = <<"---">>}
       IN  /\ ~rendered(split).isNull
           /\ \A k \in 1..Len(lines) : ~isBullet(lines[k])
           /\ Cardinality(fences) >= 2
           /\ \A j \in 1..Len(render.releases) :
                \E k \in 1..Len(lines) :
                  /\ isReleaseLineOf(lines[k], render.releases[j])
                  /\ \E a, b \in fences : a < k /\ k < b
                  /\ \A l \in 1..Len(lines) :
                       isReleaseLineOf(lines[l], render.releases[j]) => l = k

\* a major and a minor release with two empty descriptions each, rendered in
\* two sections
C30_Witness ==
  /\ wasRendered(TRUE)
  /\ Len(render.releases) = 2
  /\ carrying = {1, 2}
  /\ render.releases[1].type = "major"
  /\ render.releases[2].type = "minor"
  /\ Len(render.releases[1].changeTypes) = 2
  /\ Len(render.releases[2].changeTypes) = 2
  /\ describedOf(1) = {} /\ describedOf(2) = {}
  /\ Cardinality({k \in 1..Len(rendered(TRUE).lines) :
                    rendered(TRUE).lines[k] = <<"---">>}) = 4

\* the await points of the questions about releases, bump types and summaries
questionnairePrompts ==
  {"askInitialReleaseQuestion", "choosePkgsForBumpType", "confirmMajorRelease",
   "askList", "askSummary", "askQuestionWithEditor", "askSummaryAgain",
   "setSummary", "setSummaryEditor", "setSummaryAgain"}

\* C31: with the empty flag the session persists one changeset with no
\* releases and the summary "", and no question about the release selection,
\* a bump type or a summary is ever issued.
C31_EmptyFlagPersistsEmptyChangeset ==
  empty =>
    /\ pc \notin questionnairePrompts
    /\ \A kind \in {"bump", "firstMajor", "list", "Summary", "editor", "again"} :
         asked[kind] = 0
    /\ packagesToRelease = <<>>
    /\ pc # "add" =>
         /\ Len(written) = 1
         /\ written[1].releases = <<>>
         /\ written[1].summary = ""
         /\ timesCalled("writeChangeset") = 1

\* the empty changeset of a workspace with two packages was persisted
C31_Witness ==
  /\ empty
  /\ Len(allPackages) = 2
  /\ pc = "done"
  /\ written = <<Changeset(TRUE, "", <<>>)>>
  /\ asked = [kind \in PromptKinds |-> 0]

descriptionPrompts == {"askSameMessage", "askDescription", "askReuse"}

summaryPrompts == {"setSummary", "setSummaryEditor", "setSummaryAgain"}

\* every release of the changeset has a change type for every chosen category
fullyDescribed(changeset) ==
  \A j \in 1..Len(changeset.releases) :
    /\ "changeTypes" \in DOMAIN changeset.releases[j]
    /\ Len(changeset.releases[j].changeTypes) = Len(chosenChangeTypeList)

\* a step from a summary question: no description question follows, and the
\* collection goes through the changeset list one by one up to its end
summaryQuestionAnswered ==
  pc \in summaryPrompts =>
    /\ pc' \notin descriptionPrompts
    /\ asked'["description"] = asked["description"]
    /\ asked'["reuse"] = asked["reuse"]
    /\ sIdx' \in {sIdx, sIdx + 1}
    /\ pc' \notin summaryPrompts =>
         /\ sIdx = Len(changesetList)
         /\ \A j \in 1..Len(changesetList') : changesetList'[j].summary # ""

summariesStarted ==
  IF config.alwaysOpenEditor THEN asked["editor"] ELSE asked["Summary"]

\* C33: with C chosen categories, grouping per bump type asks (number of
\* distinct bump types) x C description questions and collects one summary;
\* grouping per package with every reuse offer declined asks (number of
\* releases) x C description questions and collects one summary per release.
C33_QuestionCounts ==
  LET C == Len(chosenChangeTypeList)
      R == Len(thisReleases)
      G == Cardinality({thisReleases[j].type : j \in 1..R})
      expected == IF isSameMessageForAllPkgs THEN 1 ELSE R
  IN  /\ (pc \in summaryPrompts \cup {"askDesired", "done"}
            /\ (isSameMessageForAllPkgs \/ asked["reused"] = 0)) =>
           /\ asked["description"] = (IF isSameMessageForAllPkgs THEN G ELSE R) * C
           /\ Len(changesetList) = expected
           /\ summariesStarted <= expected
      /\ (pc \in {"askDesired", "done"}
            /\ (isSameMessageForAllPkgs \/ asked["reused"] = 0)) =>
           /\ Len(changesets) = expected
           /\ \A j \in 1..expected : changesets[j].summary # ""
           /\ collect.done /\ collect.idx = expected
           /\ summariesStarted = expected

\* per package: two releases and two categories, both reuse offers for the
\* second package declined, took four descriptions and two summaries
C33_Witness ==
  /\ pc = "done"
  /\ ~isSameMessageForAllPkgs
  /\ Len(thisReleases) = 2
  /\ Len(chosenChangeTypeList) = 2
  /\ asked["reuse"] = 2 /\ asked["reused"] = 0
  /\ asked["description"] = 4
  /\ asked["Summary"] = 2
  /\ Len(written) = 2

\* the positions of the store calls in calls, in the order they were made
storeCalls ==
  LET RECURSIVE from(_)
      from(j) == IF j > Len(calls) THEN <<>>
                 ELSE IF calls[j].op = "writeChangeset" THEN <<j>> \o from(j + 1)
                 ELSE from(j + 1)
  IN  from(1)

\* C34: the writer calls the store in the order of the changeset list and at
\* most once per changeset: the i-th store call carries the i-th confirmed
\* changeset, and everything done for a changeset (the confirmation, the
\* write, git add and git commit) is complete before the next changeset's
\* confirmation is asked.
C34_StoreCallsInListOrder ==
  /\ Len(storeCalls) = Len(written)
  /\ \A k \in 1..Len(storeCalls) :
       LET c == calls[storeCalls[k]]
       IN  /\ c.id = k
           /\ c.changeset \in 1..Len(changesets)
           /\ written[k] = [changesets[c.changeset] EXCEPT !.confirmed = TRUE]
           /\ Cardinality({x \in 1..c.changeset : x \notin declined}) = k
           /\ ~changesets[c.changeset].confirmed => c.changeset \in askedDesired
  /\ \A idx \in 1..Len(changesets) :
       Cardinality({j \in callsFor(idx) : calls[j].op = "writeChangeset"}) <= 1
  /\ \A j \in 1..(Len(calls) - 1) :
       /\ calls[j].changeset <= calls[j + 1].changeset
       /\ calls[j].changeset = calls[j + 1].changeset =>
            calls[j + 1].op # "writeChangeset"
  /\ pc = "askDesired" =>
       /\ askedDesired \subseteq 1..(wIdx - 1)
       /\ \A j \in 1..Len(calls) : calls[j].changeset < wIdx
       /\ \A id \in 1..Len(written) :
            /\ opsOf(id)[1] = "writeChangeset"
            /\ config.commit =>
                 SubSeq(opsOf(id), 2, 3) = <<"git.add", "git.commit">>

\* the first changeset was confirmed, written, staged and committed, and the
\* writer now asks about the second
C34_Witness ==
  /\ pc = "askDesired"
  /\ wIdx = 2
  /\ config.commit
  /\ askedDesired = {1}
  /\ declined = {}
  /\ changesets[1] # changesets[2]
  /\ written = <<[changesets[1] EXCEPT !.confirmed = TRUE]>>
  /\ [j \in 1..3 |-> calls[j].op] = <<"writeChangeset", "git.add", "git.commit">>

\* major, minor and patch in this order, then whatever the last bucket assigns
severityRank(bumpType) ==
  CASE bumpType = "major" -> 1
    [] bumpType = "minor" -> 2
    [] bumpType = "patch" -> 3
    [] OTHER -> 4

orderedBySeverity(rels) ==
  \A j, k \in 1..Len(rels) :
    j < k => severityRank(rels[j].type) <= severityRank(rels[k].type)

\* C35: in multi-package mode the releases of createChangeset are ordered by
\* severity (major before minor before patch before the releases of the final
\* forced bucket), while they are collected and in the changeset returned, and
\* a severity prompt is issued only while the unclassified pool is not empty.
C35_ReleasesOrderedBySeverity ==
  isMultiPackage =>
    /\ orderedBySeverity(releases)
    /\ \A n \in 1..Len(newChangeset) :
         /\ orderedBySeverity(newChangeset[n].releases)
         /\ ~empty => newChangeset[n].releases = releases
    /\ pc = "choosePkgsForBumpType" =>
         /\ Len(pkgsLeftToGetBumpTypeFor) > 0
         /\ packages = pkgsLeftToGetBumpTypeFor
         /\ i < Len(bumpTypes)
         /\ asked["bump"] = i - 1
    /\ (releaseSelectionFinished /\ asked["bump"] < Len(bumpTypes) - 1) =>
         \A j \in 1..Len(releases) : severityRank(releases[j].type) <= asked["bump"]

\* pkg-b was ticked at the patch prompt and pkg-a fell into the final bucket:
\* the changeset returned lists pkg-b first
C35_Witness ==
  /\ isMultiPackage
  /\ pc = "createChangesetReturned"
  /\ asked["bump"] = 3
  /\ Len(newChangeset) = 1
  /\ releaseNames(newChangeset[1].releases) = <<"pkg-b", "pkg-a">>
  /\ newChangeset[1].releases[1].type = "patch"
  /\ newChangeset[1].releases[2].type = "none"

\* the answers that end the two loops: a selection that is not empty at the
\* initial multi-select, a summary that is not empty at the re-ask
selectionGiven == askInitialReleaseQuestion /\ pc' # pc

summaryGiven == askSummaryAgain /\ pc' # pc

userEventuallyAnswers == WF_vars(selectionGiven) /\ WF_vars(summaryGiven)

createChangesetReturnedChangeset == newChangeset # <<>>

createChangesetThrewExitError == thrown = "ExitError(1)" /\ newChangeset = <<>>

\* C36 as stated: if the user eventually gives a selection and a summary that
\* are not empty, both loops exit and createChangeset returns a changeset.
C36_QuestionnaireReturnsChangeset ==
  userEventuallyAnswers => <>createChangesetReturnedChangeset

\* C36: if the user eventually gives a selection and a summary that are not
\* empty, both loops exit and createChangeset ends: it returns a changeset,
\* or, in single-package mode after a declined first-major confirmation, it
\* throws ExitError.
C36_QuestionnaireTerminates ==
  userEventuallyAnswers =>
    <>(createChangesetReturnedChangeset \/ createChangesetThrewExitError)

\* the session is in the summary re-ask loop, after an empty answer there and
\* with the selection loop behind it
C36_Witness ==
  /\ ~empty
  /\ isMultiPackage
  /\ pc = "askSummaryAgain"
  /\ retries = MaxRetry
  /\ Len(releases) = 2
  /\ asked["editor"] = 1
====
